---- MODULE Spec2Model ----
(***************************************************************************)
(* A model of go-blosc: the 16-byte frame header (codec.go, blosc part),   *)
(* the byte- and bit-shuffle transforms with their SIMD fast paths         *)
(* (shuffle.go, shuffle_amd64.s, shuffle_arm64.s), the codec adapters and  *)
(* registry (codec.go) and the compress / decompress pipeline.             *)
(*                                                                         *)
(* Bytes are integers 0..255, byte slices are sequences (index i of the Go *)
(* slice is index i+1 of the sequence).  A behaviour is one caller: it     *)
(* holds arguments (`arg`), and every call it makes is one action that     *)
(* records the operation, its arguments and its results in `call`.         *)
(***************************************************************************)
EXTENDS Integers, Sequences, FiniteSets, TLC

VARIABLES
    codecs,     \* the registry: codec id -> adapter (codec.go: var codecs)
    useAVX2,    \* process-wide SIMD flag, set by initSIMD on amd64
    useNEON,    \* process-wide SIMD flag, constant true on arm64
    intBits,    \* width of Go's int on the build (32 or 64)
    arg,        \* the arguments the caller holds for its calls
    call        \* the last call: its operation, arguments and results

vars == <<codecs, useAVX2, useNEON, intBits, arg, call>>

-----------------------------------------------------------------------------
(* Bounds of the model *)

\* longest data slice handed to Compress
MaxLen == 17
\* longest slice handed to the transform functions
MaxSrcLen == 66

\* length of the data behind the payloads of hand-made frames
PayloadLen == 16

\* number of goroutines that call the package at the same time
NumGoroutines == 2

\* Calls in a sequence of registry calls
MaxCalls == 3

-----------------------------------------------------------------------------
(* Program constants *)

HeaderSize == 16
FormatVersion == 2

flagShuffle == 1
flagMemcpy == 2
flagBitShuffle == 4

NoShuffle == 0
Shuffle1 == 1
BitShuffle == 2

BloscLZ == 0
LZ4 == 1
LZ4HC == 2
Snappy == 3
ZLIB == 4
ZSTD == 5

\* Fixed-width numbers are kept in two 16-bit limbs, value = hi * Limb + lo:
\* a uint32 has hi in 0..65535, a Go int converted from a uint32 has the
\* same limbs when int has 64 bits and a negative hi limb when int has 32
\* bits and the top bit is set.
Limb == 65536
HalfLimb == 32768

-----------------------------------------------------------------------------
(* Byte and slice helpers *)

\* s[i] of the Go slice s (0-based)
At(s, i) == s[i + 1]

\* s[lo:hi] of the Go slice s
Slice(s, lo, hi) == SubSeq(s, lo + 1, hi)

\* make([]byte, n): n zero bytes
MakeBytes(n) == [p \in 1..n |-> 0]

\* bit k (0 = least significant) of byte b: b & (1<<k) != 0, as 0 or 1
BitAt(b, k) == (b \div (2 ^ k)) % 2

\* flags & mask != 0 for a one-bit mask
HasFlag(flags, mask) == (flags \div mask) % 2 = 1

\* uint32(n) for a length n >= 0
Uint32Of(n) == [hi |-> (n \div Limb) % Limb, lo |-> n % Limb]

\* int(u) for a uint32 u: the value itself when int has 64 bits, the
\* two's-complement reading when int has 32 bits
ToInt(u) ==
    [hi |-> IF intBits = 32 /\ u.hi >= HalfLimb THEN u.hi - Limb ELSE u.hi,
     lo |-> u.lo]

\* comparisons of a two-limb number w with a length n, 0 <= n < Limb
WideGt(w, n) == w.hi > 0 \/ (w.hi = 0 /\ w.lo > n)
WideLt(w, n) == w.hi < 0 \/ (w.hi = 0 /\ w.lo < n)
\* (mutant) a number below the length also counts as equal
WideEqOrBelow(w, n) == w.hi < 0 \/ (w.hi = 0 /\ w.lo <= n)
WideEq(w, n) == w.hi = 0 /\ w.lo = n

-----------------------------------------------------------------------------
(* Byte shuffle *)

\* (mutant) the loop writes byte j of element i back to where it was
ScalarShuffleInPlace(dst, src, typeSize, from) ==
    LET numElements == Len(src) \div typeSize
    IN  [p \in 1..Len(dst) |->
            IF p - 1 < numElements * typeSize
                /\ (p - 1) \div typeSize >= from
            THEN src[p]
            ELSE dst[p]]

\* The scalar loop of shuffleBytes over the elements from..numElements-1:
\* dst[j*numElements+i] = src[i*typeSize+j]
ScalarShuffle(dst, src, typeSize, from) ==
    LET numElements == Len(src) \div typeSize
    IN  [p \in 1..Len(dst) |->
            LET j == (p - 1) \div numElements
                i == (p - 1) % numElements
            IN  IF p - 1 < numElements * typeSize /\ i >= from
                THEN At(src, i * typeSize + j)
                ELSE dst[p]]

\* The scalar loop of unshuffleBytes over the elements from..numElements-1:
\* dst[i*typeSize+j] = src[j*numElements+i]
ScalarUnshuffle(dst, src, typeSize, from) ==
    LET numElements == Len(src) \div typeSize
    IN  [p \in 1..Len(dst) |->
            LET i == (p - 1) \div typeSize
                j == (p - 1) % typeSize
            IN  IF p - 1 < numElements * typeSize /\ i >= from
                THEN At(src, j * numElements + i)
                ELSE dst[p]]

\* (mutant) the output buffer holds whole elements only: the trailing
\* n % typeSize bytes are dropped instead of copied
CopyTailDropped(dst, src, start) == SubSeq(dst, 1, start)

\* copy(dst[start:], src[start:]) when n % typeSize > 0
CopyTail(dst, src, start) ==
    [p \in 1..Len(dst) |-> IF p - 1 >= start THEN src[p] ELSE dst[p]]

\* The byte tables of the vector routines (shuffle_amd64.s, shuffle_arm64.s)
shuffle4_lane ==
    <<0, 4, 8, 12, 1, 5, 9, 13, 2, 6, 10, 14, 3, 7, 11, 15,
      0, 4, 8, 12, 1, 5, 9, 13, 2, 6, 10, 14, 3, 7, 11, 15>>
shuffle4_perm == <<0, 4, 1, 5, 2, 6, 3, 7>>
unshuffle4_lane ==
    <<0, 4, 8, 12, 1, 5, 9, 13, 2, 6, 10, 14, 3, 7, 11, 15,
      0, 4, 8, 12, 1, 5, 9, 13, 2, 6, 10, 14, 3, 7, 11, 15>>
unshuffle4_perm == <<0, 2, 4, 6, 1, 3, 5, 7>>
shuffle4_tbl == <<0, 4, 8, 12, 1, 5, 9, 13, 2, 6, 10, 14, 3, 7, 11, 15>>
unshuffle4_tbl == <<0, 4, 8, 12, 1, 5, 9, 13, 2, 6, 10, 14, 3, 7, 11, 15>>

\* VPSHUFB on a 32-byte register: byte k comes from the byte of its own
\* 128-bit lane that the mask names (zero when bit 7 of the mask byte is set)
VPSHUFB(mask, x) ==
    [k \in 1..32 |->
        IF mask[k] >= 128 THEN 0
        ELSE x[((k - 1) \div 16) * 16 + (mask[k] % 16) + 1]]

\* VPERMD on a 32-byte register: dword d comes from the dword idx[d] names
VPERMD(x, idx) ==
    [k \in 1..32 |-> x[(idx[(k - 1) \div 4 + 1] % 8) * 4 + ((k - 1) % 4) + 1]]

\* VTBL on a 16-byte register: byte k comes from the byte the table names
\* (zero when the index is out of range)
VTBL(tbl, x) == [k \in 1..16 |-> IF tbl[k] < 16 THEN x[tbl[k] + 1] ELSE 0]

\* (mutant) the dwords of the two lanes are not interleaved
TransposeChunkLaneOnly(chunk, x) ==
    IF chunk = 8 THEN VPSHUFB(shuffle4_lane, x)
    ELSE VTBL(shuffle4_tbl, x)

\* The register a chunk of elements is turned into before it is stored:
\* VPSHUFB then VPERMD (AVX2, 8 elements), VTBL (NEON, 4 elements)
TransposeChunk(chunk, x) ==
    IF chunk = 8 THEN VPERMD(VPSHUFB(shuffle4_lane, x), shuffle4_perm)
    ELSE VTBL(shuffle4_tbl, x)

\* The register that is stored for a chunk gathered from the four regions:
\* VPERMD then VPSHUFB (AVX2), VTBL (NEON)
UntransposeChunk(chunk, x) ==
    IF chunk = 8 THEN VPSHUFB(unshuffle4_lane, VPERMD(x, unshuffle4_perm))
    ELSE VTBL(unshuffle4_tbl, x)

\* The vector routine shared by shuffleBytesAVX2 (chunk = 8 elements) and
\* shuffleBytesNEON (chunk = 4 elements): whole chunks only, typeSize 4
\* only; chunk c is loaded from src[c*4*chunk:], transposed, and its four
\* parts are stored at dst[j*numElements + c*chunk:], j = 0..3.
ShuffleChunks(dst, src, typeSize, chunk) ==
    LET n == Len(dst)
        numElements == n \div 4
        numChunks == numElements \div chunk
    IN  IF typeSize # 4 \/ n < 4 * chunk \/ numChunks = 0
        THEN [ok |-> FALSE, dst |-> dst]
        ELSE [ok |-> TRUE,
              dst |-> [p \in 1..n |->
                        LET j == (p - 1) \div numElements
                            i == (p - 1) % numElements
                            c == i \div chunk
                        IN  IF j < 4 /\ c < numChunks
                            THEN TransposeChunk(chunk,
                                    SubSeq(src, c * 4 * chunk + 1,
                                           (c + 1) * 4 * chunk))
                                 [j * chunk + (i % chunk) + 1]
                            ELSE dst[p]]]

\* unshuffleBytesAVX2 / unshuffleBytesNEON: chunk c is gathered from
\* src[j*numElements + c*chunk:], j = 0..3, untransposed and stored at
\* dst[c*4*chunk:].
UnshuffleChunks(dst, src, typeSize, chunk) ==
    LET n == Len(dst)
        numElements == n \div 4
        numChunks == numElements \div chunk
    IN  IF typeSize # 4 \/ n < 4 * chunk \/ numChunks = 0
        THEN [ok |-> FALSE, dst |-> dst]
        ELSE [ok |-> TRUE,
              dst |-> [p \in 1..n |->
                        LET c == (p - 1) \div (4 * chunk)
                        IN  IF c < numChunks
                            THEN UntransposeChunk(chunk,
                                    [k \in 1..(4 * chunk) |->
                                        src[((k - 1) \div chunk) * numElements
                                            + c * chunk + ((k - 1) % chunk) + 1]])
                                 [((p - 1) % (4 * chunk)) + 1]
                            ELSE dst[p]]]

shuffleBytesAVX2(dst, src, typeSize) == ShuffleChunks(dst, src, typeSize, 8)
shuffleBytesNEON(dst, src, typeSize) == ShuffleChunks(dst, src, typeSize, 4)
unshuffleBytesAVX2(dst, src, typeSize) == UnshuffleChunks(dst, src, typeSize, 8)
unshuffleBytesNEON(dst, src, typeSize) == UnshuffleChunks(dst, src, typeSize, 4)

\* The SIMD attempt at the head of shuffleBytes / unshuffleBytes: AVX2
\* first, then NEON; chunkElements is the chunk of the routine that ran.
TrySIMD(avx, neon, n) ==
    LET a == IF useAVX2 /\ n >= 32 THEN avx ELSE [ok |-> FALSE, dst |-> MakeBytes(n)]
        b == IF ~a.ok /\ useNEON /\ n >= 16 THEN neon ELSE a
    IN  [usedSIMD |-> b.ok, dst |-> b.dst,
         chunkElements |-> IF ~a.ok /\ useNEON /\ n >= 16 THEN 4
                           ELSE IF useAVX2 /\ n >= 32 THEN 8 ELSE 0]

shuffleBytes(src, typeSize) ==
    IF typeSize <= 1 \/ Len(src) < typeSize THEN src
    ELSE
    LET n == Len(src)
        numElements == n \div typeSize
        dst0 == MakeBytes(n)
        simd == IF typeSize = 4
                THEN TrySIMD(shuffleBytesAVX2(dst0, src, typeSize),
                             shuffleBytesNEON(dst0, src, typeSize), n)
                ELSE [usedSIMD |-> FALSE, dst |-> dst0, chunkElements |-> 0]
        from == IF simd.usedSIMD
                THEN (numElements \div simd.chunkElements) * simd.chunkElements
                ELSE 0
        dst1 == ScalarShuffle(IF simd.usedSIMD THEN simd.dst ELSE dst0,
                              src, typeSize, from)
    IN  IF n % typeSize > 0 THEN CopyTail(dst1, src, numElements * typeSize)
        ELSE dst1

unshuffleBytes(src, typeSize) ==
    IF typeSize <= 1 \/ Len(src) < typeSize THEN src
    ELSE
    LET n == Len(src)
        numElements == n \div typeSize
        dst0 == MakeBytes(n)
        simd == IF typeSize = 4
                THEN TrySIMD(unshuffleBytesAVX2(dst0, src, typeSize),
                             unshuffleBytesNEON(dst0, src, typeSize), n)
                ELSE [usedSIMD |-> FALSE, dst |-> dst0, chunkElements |-> 0]
        from == IF simd.usedSIMD
                THEN (numElements \div simd.chunkElements) * simd.chunkElements
                ELSE 0
        dst1 == ScalarUnshuffle(IF simd.usedSIMD THEN simd.dst ELSE dst0,
                                src, typeSize, from)
    IN  IF n % typeSize > 0 THEN CopyTail(dst1, src, numElements * typeSize)
        ELSE dst1

\* shuffleBytesGeneric of the tests: the scalar algorithm alone
shuffleBytesGeneric(src, typeSize) ==
    IF typeSize <= 1 \/ Len(src) < typeSize THEN src
    ELSE
    LET n == Len(src)
        numElements == n \div typeSize
        dst == ScalarShuffle(MakeBytes(n), src, typeSize, 0)
    IN  IF n % typeSize > 0 THEN CopyTail(dst, src, numElements * typeSize)
        ELSE dst

\* the scalar algorithm of unshuffleBytes alone
unshuffleBytesGeneric(src, typeSize) ==
    IF typeSize <= 1 \/ Len(src) < typeSize THEN src
    ELSE
    LET n == Len(src)
        numElements == n \div typeSize
        dst == ScalarUnshuffle(MakeBytes(n), src, typeSize, 0)
    IN  IF n % typeSize > 0 THEN CopyTail(dst, src, numElements * typeSize)
        ELSE dst

-----------------------------------------------------------------------------
(* Bit shuffle *)

\* The 8x8 bit transpose of the inner loops: output byte `outBit` collects
\* bit (7-outBit) of each of the eight gathered bytes, the byte gathered at
\* position k landing on bit (7-k).
TransposeBits(b0, b1, b2, b3, b4, b5, b6, b7, outBit) ==
      BitAt(b0, 7 - outBit) * 128 + BitAt(b1, 7 - outBit) * 64
    + BitAt(b2, 7 - outBit) * 32  + BitAt(b3, 7 - outBit) * 16
    + BitAt(b4, 7 - outBit) * 8   + BitAt(b5, 7 - outBit) * 4
    + BitAt(b6, 7 - outBit) * 2   + BitAt(b7, 7 - outBit)

\* (mutant) the transpose counts bits from the least significant end of the
\* gathered bytes
ShuffleGroupsLSBFirst(dst, src, typeSize, numGroups) ==
    [p \in 1..Len(dst) |->
        IF p - 1 < numGroups * 8 * typeSize
        THEN LET base == ((p - 1) \div (8 * typeSize)) * 8 * typeSize
                 r == (p - 1) % (8 * typeSize)
                 byteIdx == r \div 8
                 outBit == r % 8
                 in(elem) == At(src, base + elem * typeSize + byteIdx)
             IN  TransposeBits(in(0), in(1), in(2), in(3),
                               in(4), in(5), in(6), in(7), 7 - outBit)
        ELSE dst[p]]

\* The group loop of bitShuffle (and of bitShuffleAVX2, which runs the same
\* gather / transpose / store over the complete groups):
\* dst[base+byteIdx*8+outBit] from src[base+elem*typeSize+byteIdx], elem 0..7
ShuffleGroups(dst, src, typeSize, numGroups) ==
    [p \in 1..Len(dst) |->
        IF p - 1 < numGroups * 8 * typeSize
        THEN LET base == ((p - 1) \div (8 * typeSize)) * 8 * typeSize
                 r == (p - 1) % (8 * typeSize)
                 byteIdx == r \div 8
                 outBit == r % 8
                 in(elem) == At(src, base + elem * typeSize + byteIdx)
             IN  TransposeBits(in(0), in(1), in(2), in(3),
                               in(4), in(5), in(6), in(7), outBit)
        ELSE dst[p]]

\* (mutant) the inverse runs the forward gather / scatter once more
UnshuffleGroupsAsForward(dst, src, typeSize, numGroups) ==
    ShuffleGroups(dst, src, typeSize, numGroups)

\* The group loop of bitUnshuffle (and of bitUnshuffleAVX2):
\* dst[base+outElem*typeSize+byteIdx] from src[base+byteIdx*8+i], i 0..7
UnshuffleGroups(dst, src, typeSize, numGroups) ==
    [p \in 1..Len(dst) |->
        IF p - 1 < numGroups * 8 * typeSize
        THEN LET base == ((p - 1) \div (8 * typeSize)) * 8 * typeSize
                 r == (p - 1) % (8 * typeSize)
                 outElem == r \div typeSize
                 byteIdx == r % typeSize
                 in(i) == At(src, base + byteIdx * 8 + i)
             IN  TransposeBits(in(0), in(1), in(2), in(3),
                               in(4), in(5), in(6), in(7), outElem)
        ELSE dst[p]]

\* copy(dst[lo:hi], src[lo:hi])
CopyRange(dst, src, lo, hi) ==
    [p \in 1..Len(dst) |-> IF p - 1 >= lo /\ p - 1 < hi THEN src[p] ELSE dst[p]]

bitShuffleAVX2(dst, src, typeSize) ==
    LET n == Len(dst)
    IN  IF n < 64 \/ typeSize < 1 \/ (n \div typeSize) \div 8 = 0
        THEN [ok |-> FALSE, dst |-> dst]
        ELSE [ok |-> TRUE,
              dst |-> ShuffleGroups(dst, src, typeSize, (n \div typeSize) \div 8)]

bitUnshuffleAVX2(dst, src, typeSize) ==
    LET n == Len(dst)
    IN  IF n < 64 \/ typeSize < 1 \/ (n \div typeSize) \div 8 = 0
        THEN [ok |-> FALSE, dst |-> dst]
        ELSE [ok |-> TRUE,
              dst |-> UnshuffleGroups(dst, src, typeSize, (n \div typeSize) \div 8)]

\* bitShuffleNEON / bitUnshuffleNEON are not implemented: they return false
bitShuffleNEON(dst, src, typeSize) == [ok |-> FALSE, dst |-> dst]
bitUnshuffleNEON(dst, src, typeSize) == [ok |-> FALSE, dst |-> dst]

\* The body shared by bitShuffle and bitUnshuffle: the SIMD attempt (avx,
\* neon), the scalar group loop (scalar) when no SIMD routine ran, then the
\* pass-through of the elements outside complete groups and of the trailing
\* n % typeSize bytes.
BitTransform(src, typeSize, avx, neon, scalar) ==
    LET n == Len(src)
        numElements == n \div typeSize
        numGroups == numElements \div 8
        dst0 == MakeBytes(n)
        a == IF useAVX2 /\ n >= 64 THEN avx ELSE [ok |-> FALSE, dst |-> dst0]
        b == IF ~a.ok /\ useNEON /\ n >= 64 THEN neon ELSE a
        dst1 == IF b.ok THEN b.dst ELSE scalar
        dst2 == IF numElements % 8 > 0
                THEN CopyRange(dst1, src, numGroups * 8 * typeSize,
                               numElements * typeSize)
                ELSE dst1
    IN  IF n % typeSize > 0 THEN CopyTail(dst2, src, numElements * typeSize)
        ELSE dst2

bitShuffle(src, typeSize) ==
    IF typeSize <= 1 \/ Len(src) < typeSize THEN src
    ELSE BitTransform(src, typeSize,
                      bitShuffleAVX2(MakeBytes(Len(src)), src, typeSize),
                      bitShuffleNEON(MakeBytes(Len(src)), src, typeSize),
                      ShuffleGroups(MakeBytes(Len(src)), src, typeSize,
                                    (Len(src) \div typeSize) \div 8))

\* (mutant) the early return hands back a fresh zeroed slice
bitUnshuffleFreshSlice(src, typeSize) ==
    IF typeSize <= 1 \/ Len(src) < typeSize THEN MakeBytes(Len(src))
    ELSE BitTransform(src, typeSize,
                      bitUnshuffleAVX2(MakeBytes(Len(src)), src, typeSize),
                      bitUnshuffleNEON(MakeBytes(Len(src)), src, typeSize),
                      UnshuffleGroups(MakeBytes(Len(src)), src, typeSize,
                                      (Len(src) \div typeSize) \div 8))

\* bitUnshuffle
bitUnshuffle(src, typeSize) ==
    IF typeSize <= 1 \/ Len(src) < typeSize THEN src
    ELSE BitTransform(src, typeSize,
                      bitUnshuffleAVX2(MakeBytes(Len(src)), src, typeSize),
                      bitUnshuffleNEON(MakeBytes(Len(src)), src, typeSize),
                      UnshuffleGroups(MakeBytes(Len(src)), src, typeSize,
                                      (Len(src) \div typeSize) \div 8))

\* (mutant) the result of the transform is dropped
copyNothing(dst, src) == dst

\* copy(dst, src): the first min(len(dst), len(src)) bytes of src over dst
copy(dst, src) ==
    [p \in 1..Len(dst) |-> IF p <= Len(src) THEN src[p] ELSE dst[p]]

\* ShuffleBuffer: the contents of data after the call
ShuffleBuffer(data, typeSize, mode) ==
    CASE mode = Shuffle1 -> copy(data, shuffleBytes(data, typeSize))
      [] mode = BitShuffle -> copy(data, bitShuffle(data, typeSize))
      [] OTHER -> data

\* UnshuffleBuffer: the contents of data after the call
UnshuffleBuffer(data, typeSize, mode) ==
    CASE mode = Shuffle1 -> copy(data, unshuffleBytes(data, typeSize))
      [] mode = BitShuffle -> copy(data, bitUnshuffle(data, typeSize))
      [] OTHER -> data

-----------------------------------------------------------------------------
(* Header *)

\* (mutant) most significant byte first
PutUint32BigEndian(v) ==
    <<(v.hi \div 256) % 256, v.hi % 256, (v.lo \div 256) % 256, v.lo % 256>>

\* binary.LittleEndian.PutUint32
PutUint32(v) ==
    <<v.lo % 256, (v.lo \div 256) % 256, v.hi % 256, (v.hi \div 256) % 256>>

\* binary.LittleEndian.Uint32(data[off:off+4])
Uint32(data, off) ==
    [hi |-> At(data, off + 2) + 256 * At(data, off + 3),
     lo |-> At(data, off) + 256 * At(data, off + 1)]

\* The Header struct
MkHeader(version, versionLZ, flags, typeSize, nbytesOrig, blockSize, nbytesComp) ==
    [Version |-> version, VersionLZ |-> versionLZ, Flags |-> flags,
     TypeSize |-> typeSize, NBytesOrig |-> nbytesOrig, BlockSize |-> blockSize,
     NBytesComp |-> nbytesComp]

\* the nil *Header returned next to an error
NilHeader == MkHeader(0, 0, 0, 0, Uint32Of(0), Uint32Of(0), Uint32Of(0))

\* (mutant) the version byte is not checked
ParseHeaderAnyVersion(data) ==
    IF Len(data) < HeaderSize
    THEN [h |-> NilHeader, err |-> "InvalidHeader"]
    ELSE [h |-> MkHeader(At(data, 0), At(data, 1), At(data, 2), At(data, 3),
                         Uint32(data, 4), Uint32(data, 8), Uint32(data, 12)),
          err |-> "nil"]

\* ParseHeader
ParseHeader(data) ==
    IF Len(data) < HeaderSize
    THEN [h |-> NilHeader, err |-> "InvalidHeader"]
    ELSE LET h == MkHeader(At(data, 0), At(data, 1), At(data, 2), At(data, 3),
                           Uint32(data, 4), Uint32(data, 8), Uint32(data, 12))
         IN  IF h.Version # FormatVersion
             THEN [h |-> NilHeader, err |-> "InvalidVersion"]
             ELSE [h |-> h, err |-> "nil"]

\* (mutant) BlockSize and NBytesComp change places
BytesSizesSwapped(h) ==
    <<h.Version, h.VersionLZ, h.Flags, h.TypeSize>>
        \o PutUint32(h.NBytesOrig) \o PutUint32(h.NBytesComp)
        \o PutUint32(h.BlockSize)

\* Header.Bytes
Bytes(h) ==
    <<h.Version, h.VersionLZ, h.Flags, h.TypeSize>>
        \o PutUint32(h.NBytesOrig) \o PutUint32(h.BlockSize)
        \o PutUint32(h.NBytesComp)

HasShuffle(h) == HasFlag(h.Flags, flagShuffle)
HasBitShuffle(h) == HasFlag(h.Flags, flagBitShuffle)

\* (mutant) no frame counts as stored uncompressed
IsMemcpyNever(h) == FALSE
IsMemcpy(h) == HasFlag(h.Flags, flagMemcpy)

\* (mutant) the byte-shuffle flag is looked at first
ShuffleModeByteFirst(h) ==
    IF HasShuffle(h) THEN Shuffle1
    ELSE IF HasBitShuffle(h) THEN BitShuffle
    ELSE NoShuffle

\* Header.ShuffleMode
ShuffleMode(h) ==
    IF HasBitShuffle(h) THEN BitShuffle
    ELSE IF HasShuffle(h) THEN Shuffle1
    ELSE NoShuffle

-----------------------------------------------------------------------------
(* The compression libraries behind the adapters *)

(***************************************************************************)
(* The libraries (pierrec/lz4, klauspost/compress) are not part of the     *)
(* repository.  They are represented by a run-length block format that     *)
(* keeps what the adapters and the pipeline depend on: a compressor output *)
(* whose length depends on the data and on the native level, "no gain"     *)
(* reported as 0 bytes written (lz4), decoders that fail on malformed      *)
(* input, and each decoder's own use of the expected size.                 *)
(***************************************************************************)

Min(a, b) == IF a < b THEN a ELSE b

\* length of the run of equal bytes that starts at s[i], at most max
RunAt(s, i, max) ==
    LET lim == Min(max, Len(s) - i + 1)
    IN  CHOOSE r \in 1..lim :
            /\ \A k \in 0..(r - 1) : s[i + k] = s[i]
            /\ r = lim \/ s[i + r] # s[i]

RECURSIVE RLEncode(_, _)
\* the block: (run length, byte) pairs, runs of at most max bytes
RLEncode(s, max) ==
    IF s = <<>> THEN <<>>
    ELSE LET r == RunAt(s, 1, max)
         IN  <<r, s[1]>> \o RLEncode(SubSeq(s, r + 1, Len(s)), max)

RECURSIVE RLDecode(_)
\* decodes a block; out is what was decoded before the block ended ("ok"),
\* broke off inside a pair ("truncated") or held a zero run ("corrupt")
RLDecode(blob) ==
    IF blob = <<>> THEN [out |-> <<>>, st |-> "ok"]
    ELSE IF Len(blob) = 1 THEN [out |-> <<>>, st |-> "truncated"]
    ELSE IF blob[1] = 0 THEN [out |-> <<>>, st |-> "corrupt"]
    ELSE LET rest == RLDecode(SubSeq(blob, 3, Len(blob)))
         IN  [out |-> [k \in 1..blob[1] |-> blob[2]] \o rest.out,
              st |-> rest.st]

\* lz4.CompressBlock: the bytes written; none (n = 0) when no match was found
lz4CompressBlock(src) ==
    LET e == RLEncode(src, 255)
    IN  IF Len(e) = 2 * Len(src) THEN <<>> ELSE e

\* lz4.CompressBlockHC at a native level: deeper levels find longer matches
lz4CompressBlockHC(src, lz4Level) ==
    LET e == RLEncode(src, CASE lz4Level = "Level1" -> 3
                             [] lz4Level = "Level5" -> 7
                             [] lz4Level = "Level7" -> 15
                             [] OTHER -> 255)
    IN  IF Len(e) = 2 * Len(src) THEN <<>> ELSE e

\* lz4.UncompressBlock(src, dst) with len(dst) = dstLen (a Go int): fails on
\* a malformed block and on a block that decodes to more than len(dst) bytes
lz4UncompressBlock(src, dstLen) ==
    LET d == RLDecode(src)
    IN  IF d.st # "ok" \/ WideLt(dstLen, Len(d.out))
        THEN [out |-> <<>>, err |-> "lz4"]
        ELSE [out |-> d.out, err |-> "nil"]

\* one-byte checksum of the zlib trailer
Checksum(s) == IF s = <<>> THEN 1 ELSE (1 + Len(s) * 7 + s[1] + s[Len(s)] * 3) % 251

\* the FLEVEL bits of the zlib header byte for a level
ZlibLevelBits(level) ==
    CASE level \in {-2, 0, 1} -> 0
      [] level \in {2, 3, 4, 5} -> 64
      [] level \in {-1, 6} -> 128
      [] OTHER -> 192

\* zlib.NewWriterLevel + Write + Close: header, deflate block, checksum;
\* NewWriterLevel rejects a level outside -2..9
zlibWrite(data, level) ==
    IF level < -2 \/ level > 9
    THEN [out |-> <<>>, err |-> "zlib create writer"]
    ELSE [out |-> <<120, ZlibLevelBits(level)>>
                    \o RLEncode(data, IF level \in {-2, 0} THEN 1 ELSE 255)
                    \o <<Checksum(data)>>,
          err |-> "nil"]

\* zlib.NewReader: reads and checks the two header bytes
zlibNewReader(data) ==
    IF Len(data) < 2 \/ data[1] # 120 THEN "zlib header" ELSE "nil"

\* io.ReadFull(r, buf) on a reader NewReader accepted, len(buf) = size (a Go
\* int >= 0): out is buf[:n]; the read stops when buf is full, so the stream
\* behind the first len(buf) bytes is never looked at; a stream that breaks
\* off yields io.ErrUnexpectedEOF, a complete one that is too short yields
\* io.EOF (nothing read) or io.ErrUnexpectedEOF
zlibReadFull(data, size) ==
    LET hasSum == Len(data) >= 3
        d == RLDecode(SubSeq(data, 3, Len(data) - (IF hasSum THEN 1 ELSE 0)))
    IN  IF ~WideGt(size, Len(d.out))
        THEN [out |-> SubSeq(d.out, 1, size.lo), err |-> "nil"]
        ELSE IF d.st = "corrupt"
        THEN [out |-> d.out, err |-> "corrupt"]
        ELSE IF d.st = "truncated" \/ ~hasSum
        THEN [out |-> d.out, err |-> "ErrUnexpectedEOF"]
        ELSE IF data[Len(data)] # Checksum(d.out)
        THEN [out |-> d.out, err |-> "checksum"]
        ELSE [out |-> d.out,
              err |-> IF d.out = <<>> THEN "EOF" ELSE "ErrUnexpectedEOF"]

\* zstd.Encoder.EncodeAll of the encoder at index idx
zstdEncodeAll(idx, data) ==
    <<40>> \o RLEncode(data, CASE idx = 0 -> 4 [] idx = 1 -> 16
                               [] idx = 2 -> 64 [] OTHER -> 255)

\* zstd.Decoder.DecodeAll(data, dst[:0]): every frame is decoded and
\* appended, whatever the capacity of dst
zstdDecodeAll(data) ==
    IF data = <<>> THEN [out |-> <<>>, err |-> "nil"]
    ELSE LET d == RLDecode(SubSeq(data, 2, Len(data)))
         IN  IF data[1] # 40 \/ d.st # "ok"
             THEN [out |-> <<>>, err |-> "zstd"]
             ELSE [out |-> d.out, err |-> "nil"]

\* snappy.Encode: the decoded length, then the block
snappyEncode(data) == <<Len(data) % 256>> \o RLEncode(data, 255)

\* snappy.Decode(buf, data): the block must decode to the length it states;
\* buf is used when it is long enough, a new slice is made otherwise
snappyDecode(data) ==
    IF data = <<>> THEN [out |-> <<>>, err |-> "snappy"]
    ELSE LET d == RLDecode(SubSeq(data, 2, Len(data)))
         IN  IF d.st # "ok" \/ Len(d.out) # data[1]
             THEN [out |-> <<>>, err |-> "snappy"]
             ELSE [out |-> d.out, err |-> "nil"]

-----------------------------------------------------------------------------
(* Codec adapters *)

\* result of an adapter call; panic: the call did not return
Ret(out, err) == [out |-> out, err |-> err, panic |-> FALSE]
Panic == [out |-> <<>>, err |-> "panic", panic |-> TRUE]

\* lz4Codec.Compress
lz4Compress(data, level) ==
    LET buf == lz4CompressBlock(data)
    IN  IF Len(buf) = 0 THEN Ret(data, "nil") ELSE Ret(buf, "nil")

\* lz4hcCodec.Compress
lz4hcCompress(data, level) ==
    LET lz4Level == IF level <= 3 THEN "Level1"
                    ELSE IF level <= 5 THEN "Level5"
                    ELSE IF level <= 7 THEN "Level7"
                    ELSE "Level9"
        buf == lz4CompressBlockHC(data, lz4Level)
    IN  IF Len(buf) = 0 THEN Ret(data, "nil") ELSE Ret(buf, "nil")

\* lz4Codec.Decompress and lz4hcCodec.Decompress; make([]byte, expectedSize)
\* panics on a negative size
lz4Decompress(data, expectedSize) ==
    IF expectedSize.hi < 0 THEN Panic
    ELSE LET r == lz4UncompressBlock(data, expectedSize)
         IN  IF r.err # "nil" THEN Ret(<<>>, "lz4 decompress")
             ELSE Ret(r.out, "nil")

\* zlibCodec.Compress
zlibCompress(data, level) ==
    LET w == zlibWrite(data, level)
    IN  IF w.err # "nil" THEN Ret(<<>>, w.err) ELSE Ret(w.out, "nil")

\* zlibCodec.Decompress: EOF and ErrUnexpectedEOF of ReadFull are not
\* errors; make([]byte, expectedSize) panics on a negative size
zlibDecompress(data, expectedSize) ==
    IF zlibNewReader(data) # "nil" THEN Ret(<<>>, "zlib create reader")
    ELSE IF expectedSize.hi < 0 THEN Panic
    ELSE LET r == zlibReadFull(data, expectedSize)
         IN  IF r.err \notin {"nil", "EOF", "ErrUnexpectedEOF"}
             THEN Ret(<<>>, "zlib read")
             ELSE Ret(r.out, "nil")

\* zstdCodec.Compress
zstdCompress(data, level) ==
    LET idx == IF level <= 2 THEN 0
               ELSE IF level <= 4 THEN 1
               ELSE IF level <= 6 THEN 2
               ELSE 3
    IN  Ret(zstdEncodeAll(idx, data), "nil")

\* zstdCodec.Decompress; make([]byte, 0, expectedSize) panics on a negative
\* capacity
zstdDecompress(data, expectedSize) ==
    IF expectedSize.hi < 0 THEN Panic
    ELSE LET r == zstdDecodeAll(data)
         IN  IF r.err # "nil" THEN Ret(<<>>, "zstd decode")
             ELSE Ret(r.out, "nil")

\* snappyCodec.Compress
snappyCompress(data, level) == Ret(snappyEncode(data), "nil")

\* snappyCodec.Decompress
snappyDecompress(data, expectedSize) ==
    IF expectedSize.hi < 0 THEN Panic
    ELSE LET r == snappyDecode(data)
         IN  IF r.err # "nil" THEN Ret(<<>>, "snappy decode")
             ELSE Ret(r.out, "nil")

\* CodecInterface.Compress of a registered adapter ("mock" is the identity
\* codec the tests register)
CodecCompress(c, data, level) ==
    CASE c = "lz4" -> lz4Compress(data, level)
      [] c = "lz4hc" -> lz4hcCompress(data, level)
      [] c = "zlib" -> zlibCompress(data, level)
      [] c = "zstd" -> zstdCompress(data, level)
      [] c = "snappy" -> snappyCompress(data, level)
      [] OTHER -> Ret(data, "nil")

\* CodecInterface.Decompress of a registered adapter
CodecDecompress(c, data, expectedSize) ==
    CASE c = "lz4" -> lz4Decompress(data, expectedSize)
      [] c = "lz4hc" -> lz4Decompress(data, expectedSize)
      [] c = "zlib" -> zlibDecompress(data, expectedSize)
      [] c = "zstd" -> zstdDecompress(data, expectedSize)
      [] c = "snappy" -> snappyDecompress(data, expectedSize)
      [] OTHER -> Ret(data, "nil")

-----------------------------------------------------------------------------
(* Pipeline *)

\* The Options struct (BlockSize and NumThreads are never read)
MkOptions(codec, level, shuffle, typeSize) ==
    [Codec |-> codec, Level |-> level, Shuffle |-> shuffle, TypeSize |-> typeSize]

\* (mutant) the memcpy fallback stores the shuffled bytes
MemcpyPayloadShuffled(data, shuffled) == shuffled

\* the payload of a memcpy frame: compressed = data
MemcpyPayload(data, shuffled) == data

\* (mutant) a shuffle flag is set only when the transform ran
ShuffleFlagIfTransformed(opts) ==
    IF opts.TypeSize <= 1 THEN 0
    ELSE IF opts.Shuffle = Shuffle1 THEN flagShuffle
    ELSE IF opts.Shuffle = BitShuffle THEN flagBitShuffle
    ELSE 0

\* the flag of the requested shuffle mode
ShuffleFlag(opts) ==
    IF opts.Shuffle = Shuffle1 THEN flagShuffle
    ELSE IF opts.Shuffle = BitShuffle THEN flagBitShuffle
    ELSE 0

\* (mutant) data is stored raw only when the codec's output is longer
UseMemcpyWhenLonger(compressed, data) == Len(compressed) > Len(data)

\* "Check if compression was beneficial"
UseMemcpy(compressed, data) == Len(compressed) >= Len(data)

\* Result of CompressWithOptions / compressBackend: the returned frame and
\* error, with the steps the call went through
CRet(out, err, steps) == [out |-> out, err |-> err, steps |-> steps]

\* compressBackend
compressBackend(data, opts) ==
    IF opts.Codec \notin DOMAIN codecs
    THEN CRet(<<>>, "InvalidCodec", <<"lookup">>)
    ELSE
    LET shuffled == IF opts.Shuffle = Shuffle1 /\ opts.TypeSize > 1
                    THEN shuffleBytes(data, opts.TypeSize)
                    ELSE IF opts.Shuffle = BitShuffle /\ opts.TypeSize > 1
                    THEN bitShuffle(data, opts.TypeSize)
                    ELSE data
        c == CodecCompress(codecs[opts.Codec], shuffled, opts.Level)
        useMemcpy == UseMemcpy(c.out, data)
        compressed == IF useMemcpy THEN MemcpyPayload(data, shuffled) ELSE c.out
        flags == ShuffleFlag(opts) + (IF useMemcpy THEN flagMemcpy ELSE 0)
        header == MkHeader(FormatVersion, opts.Codec, flags,
                           opts.TypeSize % 256, Uint32Of(Len(data)),
                           Uint32Of(Len(data)),
                           Uint32Of(HeaderSize + Len(compressed)))
        steps == <<"lookup">>
                 \o (IF opts.Shuffle \in {Shuffle1, BitShuffle}
                        /\ opts.TypeSize > 1
                     THEN <<"shuffle">> ELSE <<>>)
                 \o <<"codec">>
    IN  IF c.err # "nil" THEN CRet(<<>>, "CompressionFailed", steps)
        ELSE CRet(Bytes(header) \o compressed, "nil", steps \o <<"header">>)

\* (mutant) the level is passed on as it came
ClampOptionsTypeSizeOnly(opts) ==
    MkOptions(opts.Codec, opts.Level, opts.Shuffle,
              IF opts.TypeSize <= 0 THEN 1 ELSE opts.TypeSize)

\* "Validate options": TypeSize at least 1, Level within 1..9
ClampOptions(opts) ==
    MkOptions(opts.Codec,
              IF opts.Level < 1 THEN 1
              ELSE IF opts.Level > 9 THEN 9 ELSE opts.Level,
              opts.Shuffle,
              IF opts.TypeSize <= 0 THEN 1 ELSE opts.TypeSize)

\* (mutant) the length of data is not looked at
CompressWithOptionsAnyLength(data, opts) ==
    compressBackend(data, ClampOptions(opts))

\* CompressWithOptions (Compress builds the Options and calls it)
CompressWithOptions(data, opts) ==
    IF Len(data) = 0 THEN CRet(<<>>, "InvalidData", <<>>)
    ELSE compressBackend(data, ClampOptions(opts))

\* Result of decompressBackend: the returned slice and error (or a panic),
\* with the steps it went through, the payload slice it took and the
\* inverse transform it applied.
DRet(out, err, steps, payload, inverse) ==
    [out |-> out, err |-> err, panic |-> err = "panic", steps |-> steps,
     payload |-> payload, inverse |-> inverse]

\* (mutant) the header's TypeSize is never looked at
ResolveTypeSizeOverrideOnly(typeSize, header) == typeSize

\* "Use header typeSize if not overridden"
ResolveTypeSize(typeSize, header) ==
    IF typeSize <= 0 THEN header.TypeSize ELSE typeSize

\* decompressBackend
decompressBackend(data, typeSize) ==
    LET p == ParseHeader(data)
        header == p.h
        \* payload := data[HeaderSize:header.NBytesComp]
        sliceOK == ~WideGt(header.NBytesComp, Len(data))
        payload == Slice(data, HeaderSize, header.NBytesComp.lo)
        known == header.VersionLZ \in DOMAIN codecs
        d == IF IsMemcpy(header) THEN Ret(payload, "nil")
             ELSE CodecDecompress(codecs[header.VersionLZ], payload,
                                  ToInt(header.NBytesOrig))
        ts == ResolveTypeSize(typeSize, header)
        inverse == IF HasBitShuffle(header) /\ ts > 1 THEN "bit"
                   ELSE IF HasShuffle(header) /\ ts > 1 THEN "byte"
                   ELSE "none"
        decompressed == CASE inverse = "bit" -> bitUnshuffle(d.out, ts)
                          [] inverse = "byte" -> unshuffleBytes(d.out, ts)
                          [] OTHER -> d.out
        decode == IF IsMemcpy(header) THEN <<"memcpy">> ELSE <<"lookup", "codec">>
    IN  IF p.err # "nil" THEN DRet(<<>>, p.err, <<"parse">>, <<>>, "none")
        ELSE IF WideGt(ToInt(header.NBytesComp), Len(data))
        THEN DRet(<<>>, "InvalidData", <<"parse", "sizes">>, <<>>, "none")
        ELSE IF WideLt(header.NBytesComp, HeaderSize)
        THEN DRet(<<>>, "InvalidData", <<"parse", "sizes">>, <<>>, "none")
        ELSE IF ~sliceOK
        THEN DRet(<<>>, "panic", <<"parse", "sizes", "payload">>, <<>>, "none")
        ELSE IF ~IsMemcpy(header) /\ ~known
        THEN DRet(<<>>, "InvalidCodec", <<"parse", "sizes", "payload", "lookup">>,
                  payload, "none")
        ELSE IF d.panic
        THEN DRet(<<>>, "panic", <<"parse", "sizes", "payload">> \o decode,
                  payload, "none")
        ELSE IF d.err # "nil"
        THEN DRet(<<>>, "DecompressionFailed",
                  <<"parse", "sizes", "payload">> \o decode, payload, "none")
        ELSE IF ~WideEq(ToInt(header.NBytesOrig), Len(decompressed))
        THEN DRet(<<>>, "SizeMismatch",
                  <<"parse", "sizes", "payload">> \o decode \o <<"unshuffle", "verify">>,
                  payload, inverse)
        ELSE DRet(decompressed, "nil",
                  <<"parse", "sizes", "payload">> \o decode \o <<"unshuffle", "verify">>,
                  payload, inverse)

\* DecompressWithSize (Decompress calls it with typeSize 0)
DecompressWithSize(data, typeSize) ==
    IF Len(data) < HeaderSize
    THEN DRet(<<>>, "InvalidHeader", <<>>, <<>>, "none")
    ELSE decompressBackend(data, typeSize)

\* GetInfo
GetInfo(data) == ParseHeader(data)

\* GetDecompressedSize
GetDecompressedSize(data) ==
    LET p == ParseHeader(data)
    IN  IF p.err # "nil" THEN [size |-> ToInt(Uint32Of(0)), err |-> p.err]
        ELSE [size |-> ToInt(p.h.NBytesOrig), err |-> "nil"]

-----------------------------------------------------------------------------
(* Initial state *)

\* The registry as the package initialises it (var codecs = map[...]{...})
BuiltinCodecs ==
    [id \in {LZ4, LZ4HC, Snappy, ZLIB, ZSTD} |->
        CASE id = LZ4 -> "lz4"
          [] id = LZ4HC -> "lz4hc"
          [] id = Snappy -> "snappy"
          [] id = ZLIB -> "zlib"
          [] id = ZSTD -> "zstd"]

\* The builds of the package: amd64 (initSIMD stores hasAVX2() in useAVX2),
\* arm64 (useNEON = true) and the generic build, which is the only one that
\* also exists for targets whose int has 32 bits.
Builds ==
    { [intBits |-> 64, useAVX2 |-> TRUE, useNEON |-> FALSE],
      [intBits |-> 64, useAVX2 |-> FALSE, useNEON |-> FALSE],
      [intBits |-> 64, useAVX2 |-> FALSE, useNEON |-> TRUE],
      [intBits |-> 32, useAVX2 |-> FALSE, useNEON |-> FALSE] }

\* the package after init(), before any call
InitPackage ==
    /\ codecs = BuiltinCodecs
    /\ \E b \in Builds :
        /\ intBits = b.intBits
        /\ useAVX2 = b.useAVX2
        /\ useNEON = b.useNEON
    /\ call = [op |-> "init"]

\* nothing but the call record changes
Frame == UNCHANGED <<codecs, useAVX2, useNEON, intBits, arg>>

-----------------------------------------------------------------------------
(* Calls of the transform functions *)

\* Inputs of the transforms: every length 0..MaxSrcLen of two byte patterns
\* whose bytes differ from position to position.
SrcBytes(pat, n) ==
    [p \in 1..n |->
        IF pat = "ramp" THEN ((p - 1) * 37 + 11) % 256
        ELSE ((p - 1) * (p - 1) * 89 + (p - 1) * 13 + 200) % 256]

SrcSet == { SrcBytes(pat, n) : pat \in {"ramp", "quad"}, n \in 0..MaxSrcLen }

TransformTypeSizes == {-1, 0, 1, 2, 3, 4, 5, 8, 16, 100}

InitShuffle ==
    /\ InitPackage
    /\ \E src \in SrcSet, ts \in TransformTypeSizes :
        arg = [src |-> src, typeSize |-> ts]

TransformCall(op, src, typeSize, out, chained, orig) ==
    [op |-> op, src |-> src, typeSize |-> typeSize, out |-> out,
     chained |-> chained, orig |-> orig]

ShuffleBytesCall ==
    /\ call.op = "init"
    /\ call' = TransformCall("shuffleBytes", arg.src, arg.typeSize,
                             shuffleBytes(arg.src, arg.typeSize), FALSE, <<>>)
    /\ Frame

BitShuffleCall ==
    /\ call.op = "init"
    /\ call' = TransformCall("bitShuffle", arg.src, arg.typeSize,
                             bitShuffle(arg.src, arg.typeSize), FALSE, <<>>)
    /\ Frame

\* unshuffleBytes on the caller's slice, or on the slice shuffleBytes returned
UnshuffleBytesCall ==
    /\ \/ /\ call.op = "init"
          /\ call' = TransformCall("unshuffleBytes", arg.src, arg.typeSize,
                                   unshuffleBytes(arg.src, arg.typeSize),
                                   FALSE, <<>>)
       \/ /\ call.op = "shuffleBytes"
          /\ call' = TransformCall("unshuffleBytes", call.out, call.typeSize,
                                   unshuffleBytes(call.out, call.typeSize),
                                   TRUE, call.src)
    /\ Frame

\* bitUnshuffle on the caller's slice, or on the slice bitShuffle returned
BitUnshuffleCall ==
    /\ \/ /\ call.op = "init"
          /\ call' = TransformCall("bitUnshuffle", arg.src, arg.typeSize,
                                   bitUnshuffle(arg.src, arg.typeSize),
                                   FALSE, <<>>)
       \/ /\ call.op = "bitShuffle"
          /\ call' = TransformCall("bitUnshuffle", call.out, call.typeSize,
                                   bitUnshuffle(call.out, call.typeSize),
                                   TRUE, call.src)
    /\ Frame

\* the values of the mode argument: the three modes and two unknown ones
BufferModes == {NoShuffle, Shuffle1, BitShuffle, 3, 255}

\* ShuffleBuffer(data, typeSize, mode) on the caller's buffer
ShuffleBufferCall ==
    /\ call.op = "init"
    /\ \E mode \in BufferModes :
        call' = [op |-> "ShuffleBuffer", src |-> arg.src,
                 typeSize |-> arg.typeSize, mode |-> mode,
                 out |-> ShuffleBuffer(arg.src, arg.typeSize, mode)]
    /\ Frame

\* UnshuffleBuffer(data, typeSize, mode) on the caller's buffer
UnshuffleBufferCall ==
    /\ call.op = "init"
    /\ \E mode \in BufferModes :
        call' = [op |-> "UnshuffleBuffer", src |-> arg.src,
                 typeSize |-> arg.typeSize, mode |-> mode,
                 out |-> UnshuffleBuffer(arg.src, arg.typeSize, mode)]
    /\ Frame

\* the dst a test hands to a vector routine; the marker shows which bytes
\* the routine wrote
MarkedBytes(n) == [p \in 1..n |-> 170]

\* shuffleBytesAVX2(dst, src, typeSize) or shuffleBytesNEON(dst, src,
\* typeSize) called by itself, on a build that has the routine
ShuffleBytesSIMDCall ==
    /\ call.op = "init"
    /\ useAVX2 \/ useNEON
    /\ LET dst == MarkedBytes(Len(arg.src))
           r == IF useAVX2 THEN shuffleBytesAVX2(dst, arg.src, arg.typeSize)
                ELSE shuffleBytesNEON(dst, arg.src, arg.typeSize)
       IN  call' = [op |-> "shuffleBytesSIMD", src |-> arg.src,
                    typeSize |-> arg.typeSize, dst |-> dst, out |-> r.dst,
                    used |-> r.ok, chained |-> FALSE]
    /\ Frame

\* unshuffleBytesAVX2 or unshuffleBytesNEON called by itself
UnshuffleBytesSIMDCall ==
    /\ call.op = "init"
    /\ useAVX2 \/ useNEON
    /\ LET dst == MarkedBytes(Len(arg.src))
           r == IF useAVX2 THEN unshuffleBytesAVX2(dst, arg.src, arg.typeSize)
                ELSE unshuffleBytesNEON(dst, arg.src, arg.typeSize)
       IN  call' = [op |-> "unshuffleBytesSIMD", src |-> arg.src,
                    typeSize |-> arg.typeSize, dst |-> dst, out |-> r.dst,
                    used |-> r.ok, chained |-> FALSE]
    /\ Frame

NextShuffle ==
    \/ ShuffleBytesCall
    \/ BitShuffleCall
    \/ UnshuffleBytesCall
    \/ BitUnshuffleCall
    \/ ShuffleBufferCall
    \/ UnshuffleBufferCall
    \/ ShuffleBytesSIMDCall
    \/ UnshuffleBytesSIMDCall

SpecShuffle == InitShuffle /\ [][NextShuffle]_vars

TransformOps == {"shuffleBytes", "unshuffleBytes", "bitShuffle", "bitUnshuffle"}

\* C9: the inverse transform applied to the output of the forward transform,
\* with the same typeSize >= 1, returns the original slice (byte shuffle and
\* bit shuffle, every length, every remainder).
TransformRoundTrip ==
    (call.op \in {"unshuffleBytes", "bitUnshuffle"} /\ call.chained
        /\ call.typeSize >= 1)
    => call.out = call.orig

\* a 35-byte slice at typeSize 4 went through bitShuffle and back: one
\* complete group of 8 elements plus 3 remainder bytes, really transposed
TransformRoundTripWitness ==
    /\ call.op = "bitUnshuffle" /\ call.chained
    /\ call.typeSize = 4 /\ Len(call.orig) = 35
    /\ call.src # call.orig
    /\ call.out = call.orig

\* C10: each of the four transforms returns a slice as long as its input,
\* for every typeSize (also typeSize <= 0 and typeSize > len(src)).
LengthPreserved ==
    call.op \in TransformOps => Len(call.out) = Len(call.src)

\* bitUnshuffle took the SIMD path on a slice of 64 bytes or more and
\* changed its bytes
LengthPreservedWitness ==
    /\ call.op = "bitUnshuffle" /\ ~call.chained
    /\ useAVX2 /\ Len(call.src) >= 64 /\ call.typeSize = 4
    /\ call.out # call.src
    /\ Len(call.out) = Len(call.src)

\* C11: whenever typeSize <= 1 or len(src) < typeSize, shuffleBytes,
\* bitShuffle, unshuffleBytes and bitUnshuffle each return bytes equal to
\* src, so forward and inverse are identities on the same shapes.
DegenerateIdentity ==
    (call.op \in TransformOps
        /\ (call.typeSize <= 1 \/ Len(call.src) < call.typeSize))
    => call.out = call.src

\* bitUnshuffle was handed a non-empty slice shorter than its typeSize and
\* returned the same bytes
DegenerateIdentityWitness ==
    /\ call.op = "bitUnshuffle" /\ ~call.chained
    /\ call.typeSize = 100 /\ Len(call.src) > 8
    /\ Len(call.src) < call.typeSize
    /\ call.out = call.src

\* C12: after ShuffleBuffer the buffer holds shuffleBytes (mode Shuffle1)
\* or bitShuffle (mode BitShuffle) of its previous contents, after
\* UnshuffleBuffer the inverse transforms; for NoShuffle and for unknown
\* modes the buffer is unchanged byte for byte.
InPlaceTransforms ==
    /\ call.op = "ShuffleBuffer"
       => call.out = (IF call.mode = Shuffle1
                      THEN shuffleBytes(call.src, call.typeSize)
                      ELSE IF call.mode = BitShuffle
                      THEN bitShuffle(call.src, call.typeSize)
                      ELSE call.src)
    /\ call.op = "UnshuffleBuffer"
       => call.out = (IF call.mode = Shuffle1
                      THEN unshuffleBytes(call.src, call.typeSize)
                      ELSE IF call.mode = BitShuffle
                      THEN bitUnshuffle(call.src, call.typeSize)
                      ELSE call.src)

\* UnshuffleBuffer in mode BitShuffle rewrote a buffer of 32 bytes or more
\* with the bit-unshuffled bytes
InPlaceTransformsWitness ==
    /\ call.op = "UnshuffleBuffer" /\ call.mode = BitShuffle
    /\ call.typeSize = 4 /\ Len(call.src) >= 32
    /\ call.out # call.src
    /\ call.out = bitUnshuffle(call.src, 4)

\* C28: with typeSize 4 the bytes a vector routine writes for its whole
\* chunks (8 elements with AVX2 from 32 bytes on, 4 with NEON from 16 on)
\* are those of the scalar algorithm, it returns false and writes nothing
\* otherwise, and shuffleBytes / unshuffleBytes return what the scalar
\* algorithm alone returns, on every build and for every length.
SIMDEqualsScalar ==
    /\ call.op = "shuffleBytes"
        => call.out = shuffleBytesGeneric(call.src, call.typeSize)
    /\ call.op = "unshuffleBytes"
        => call.out = unshuffleBytesGeneric(call.src, call.typeSize)
    /\ call.op \in {"shuffleBytesSIMD", "unshuffleBytesSIMD"}
        => LET n == Len(call.src)
               chunk == IF useAVX2 THEN 8 ELSE 4
               numElements == n \div 4
               done == (numElements \div chunk) * chunk
               ref == IF call.op = "shuffleBytesSIMD"
                      THEN shuffleBytesGeneric(call.src, 4)
                      ELSE unshuffleBytesGeneric(call.src, 4)
           IN  /\ call.used <=> (call.typeSize = 4 /\ n >= 4 * chunk)
               /\ ~call.used => call.out = call.dst
               /\ call.used
                    => /\ Len(call.out) = n
                       /\ \A p \in 1..n :
                            call.out[p] =
                                IF call.op = "shuffleBytesSIMD"
                                THEN (IF p - 1 < 4 * numElements
                                         /\ (p - 1) % numElements < done
                                      THEN ref[p] ELSE call.dst[p])
                                ELSE (IF p - 1 < 4 * done
                                      THEN ref[p] ELSE call.dst[p])

\* on an AVX2 build shuffleBytes of 42 bytes (one chunk of 8 elements, two
\* elements for the scalar loop, two trailing bytes) with typeSize 4
\* returned the scalar result
SIMDEqualsScalarWitness ==
    /\ call.op = "shuffleBytes" /\ useAVX2
    /\ call.typeSize = 4 /\ Len(call.src) = 42
    /\ call.out = shuffleBytesGeneric(call.src, 4)
    /\ call.out # call.src

\* C29: with N = len(src), T = typeSize > 1, N >= T and E = N div T, the
\* output of shuffleBytes has out[j*E + i] = src[i*T + j] for i < E, j < T
\* and out[k] = src[k] for E*T <= k < N; the positions are permuted (every
\* input index goes to exactly one output index).
ByteShuffleLayout ==
    (call.op = "shuffleBytes" /\ call.typeSize > 1
        /\ Len(call.src) >= call.typeSize)
    => LET N == Len(call.src)
           T == call.typeSize
           E == N \div T
           to == [k \in 0..(N - 1) |->
                    IF k < E * T THEN (k % T) * E + (k \div T) ELSE k]
       IN  /\ Len(call.out) = N
           /\ \A i \in 0..(E - 1), j \in 0..(T - 1) :
                At(call.out, j * E + i) = At(call.src, i * T + j)
           /\ \A k \in (E * T)..(N - 1) : At(call.out, k) = At(call.src, k)
           /\ \A k \in 0..(N - 1) : At(call.out, to[k]) = At(call.src, k)
           /\ {to[k] : k \in 0..(N - 1)} = 0..(N - 1)

\* 11 bytes with typeSize 3: three elements are spread over three rows and
\* the two trailing bytes stay where they were
ByteShuffleLayoutWitness ==
    /\ call.op = "shuffleBytes" /\ call.typeSize = 3
    /\ Len(call.src) = 11
    /\ At(call.out, 1 * 3 + 2) = At(call.src, 2 * 3 + 1)
    /\ At(call.out, 10) = At(call.src, 10)
    /\ call.out # call.src

\* C30: with typeSize T > 1, in every complete group g of 8 elements bit
\* (7-k) of out[g*8*T + j*8 + m] is bit (7-m) of src[g*8*T + k*T + j]
\* (j < T; m, k in 0..7); the bytes of the elements behind the last
\* complete group and the trailing N mod T bytes are copied; bitUnshuffle
\* applies the mirror rule with the same pass-through.
BitShuffleLayout ==
    (call.op \in {"bitShuffle", "bitUnshuffle"} /\ call.typeSize > 1)
    => LET N == Len(call.src)
           T == call.typeSize
           G == (N \div T) \div 8
       IN  /\ Len(call.out) = N
           /\ \A g \in 0..(G - 1), j \in 0..(T - 1), m \in 0..7, k \in 0..7 :
                IF call.op = "bitShuffle"
                THEN BitAt(At(call.out, g * 8 * T + j * 8 + m), 7 - k)
                        = BitAt(At(call.src, g * 8 * T + k * T + j), 7 - m)
                ELSE BitAt(At(call.out, g * 8 * T + k * T + j), 7 - m)
                        = BitAt(At(call.src, g * 8 * T + j * 8 + m), 7 - k)
           /\ \A p \in (G * 8 * T)..(N - 1) : At(call.out, p) = At(call.src, p)

\* 37 bytes with typeSize 2: two complete groups are transposed, the last
\* two elements and the trailing byte are copied
BitShuffleLayoutWitness ==
    /\ call.op = "bitShuffle" /\ call.typeSize = 2
    /\ Len(call.src) = 37
    /\ SubSeq(call.out, 1, 32) # SubSeq(call.src, 1, 32)
    /\ SubSeq(call.out, 33, 37) = SubSeq(call.src, 33, 37)

-----------------------------------------------------------------------------
(* Calls of the pipeline on the caller's data *)

\* Data handed to Compress: every length 0..MaxLen of four patterns: one
\* repeated byte, bytes that all differ, two alternating bytes (runs only
\* after a shuffle at typeSize 2) and runs of four equal bytes.
DataBytes(pat, n) ==
    [p \in 1..n |->
        CASE pat = "const" -> 7
          [] pat = "ramp" -> ((p - 1) * 37 + 11) % 256
          [] pat = "pairs" -> 1 + ((p - 1) % 2)
          [] OTHER -> 5 + 17 * ((p - 1) \div 4)]

DataSet ==
    { DataBytes(pat, n) : pat \in {"const", "ramp", "pairs", "runs"},
                          n \in 0..MaxLen }

\* The documented argument ranges: the five built-in codecs, levels 1..9,
\* the three shuffle modes, element sizes 1, 2, 4, 8, 16
CompressArgs ==
    { [data |-> d, opts |-> MkOptions(c, l, sh, ts)] :
        d \in DataSet, c \in {LZ4, LZ4HC, Snappy, ZLIB, ZSTD}, l \in 1..9,
        sh \in {NoShuffle, Shuffle1, BitShuffle}, ts \in {1, 2, 4, 8, 16} }

\* Arguments outside the documented ranges: unregistered codec ids, levels
\* and element sizes that get clamped or do not fit a byte, an unknown
\* shuffle mode
EdgeArgs ==
    { [data |-> d, opts |-> MkOptions(c, l, sh, ts)] :
        d \in { DataBytes(pat, n) : pat \in {"ramp", "runs"},
                                    n \in {0, 1, 8, MaxLen} },
        c \in {BloscLZ, LZ4, LZ4HC, Snappy, ZLIB, ZSTD, 99},
        l \in {-3, 0, 1, 9, 10, 12},
        sh \in {NoShuffle, Shuffle1, BitShuffle, 3},
        ts \in {-1, 0, 1, 2, 3, 256, 258} }

Init ==
    /\ InitPackage
    /\ arg \in CompressArgs \cup EdgeArgs

\* Compress(data, codec, level, shuffle, typeSize)
CompressCall ==
    /\ call.op = "init"
    /\ LET r == CompressWithOptions(arg.data, arg.opts)
       IN  call' = [op |-> "Compress", data |-> arg.data, opts |-> arg.opts,
                    out |-> r.out, err |-> r.err, steps |-> r.steps]
    /\ Frame

\* Decompress(frame) on the frame Compress returned
DecompressCall ==
    /\ call.op = "Compress" /\ call.err = "nil"
    /\ LET r == DecompressWithSize(call.out, 0)
       IN  call' = [op |-> "Decompress", input |-> call.out, typeSize |-> 0,
                    out |-> r.out, err |-> r.err, panic |-> r.panic,
                    steps |-> r.steps, payload |-> r.payload,
                    inverse |-> r.inverse, chained |-> TRUE,
                    data |-> call.data, opts |-> call.opts]
    /\ Frame

\* GetInfo(frame) on the frame Compress returned
GetInfoCall ==
    /\ call.op = "Compress" /\ call.err = "nil"
    /\ LET r == GetInfo(call.out)
       IN  call' = [op |-> "GetInfo", input |-> call.out, h |-> r.h,
                    err |-> r.err, chained |-> TRUE,
                    data |-> call.data, opts |-> call.opts]
    /\ Frame

\* GetDecompressedSize(frame) on the frame Compress returned
GetDecompressedSizeCall ==
    /\ call.op = "Compress" /\ call.err = "nil"
    /\ LET r == GetDecompressedSize(call.out)
       IN  call' = [op |-> "GetDecompressedSize", input |-> call.out,
                    size |-> r.size, err |-> r.err, chained |-> TRUE,
                    data |-> call.data, opts |-> call.opts]
    /\ Frame

Next ==
    \/ CompressCall
    \/ DecompressCall
    \/ GetInfoCall
    \/ GetDecompressedSizeCall

Spec == Init /\ [][Next]_vars

\* the arguments are in the documented ranges of the round-trip law
Documented(data, opts) ==
    /\ Len(data) > 0
    /\ opts.Codec \in {LZ4, LZ4HC, Snappy, ZLIB, ZSTD}
    /\ opts.Level \in 1..9
    /\ opts.Shuffle \in {NoShuffle, Shuffle1, BitShuffle}
    /\ opts.TypeSize \in {1, 2, 4, 8, 16}

\* C1: for non-empty data, a built-in codec, a level in 1..9, any shuffle
\* mode and typeSize in {1,2,4,8,16}, Decompress(Compress(...)) returns no
\* error and exactly data (memcpy frames with a shuffle mode included).
RoundTripLaw ==
    (call.op = "Decompress" /\ call.chained /\ Documented(call.data, call.opts))
    => (call.err = "nil" /\ call.out = call.data)

\* C2: in a produced frame with the MEMCPY flag, the payload (bytes 16..end)
\* is the original input and NBytesComp = 16 + NBytesOrig.
MemcpyCoherence ==
    (call.op = "Compress" /\ call.err = "nil"
        /\ IsMemcpy(ParseHeader(call.out).h))
    => /\ Slice(call.out, HeaderSize, Len(call.out)) = call.data
       /\ ParseHeader(call.out).h.NBytesComp
            = Uint32Of(HeaderSize + Len(call.data))
       /\ ParseHeader(call.out).h.NBytesOrig = Uint32Of(Len(call.data))

\* a memcpy frame was produced for data that a requested byte shuffle
\* rearranges
MemcpyCoherenceWitness ==
    /\ call.op = "Compress" /\ call.err = "nil"
    /\ IsMemcpy(ParseHeader(call.out).h)
    /\ call.opts.Shuffle = Shuffle1 /\ call.opts.TypeSize = 2
    /\ shuffleBytes(call.data, 2) # call.data
    /\ Slice(call.out, HeaderSize, Len(call.out)) = call.data

\* C13: Compress on zero-length data returns InvalidData and no frame for
\* every codec id, registered or not; on non-empty data with an
\* unregistered codec id it returns InvalidCodec and no frame, and neither
\* a shuffle nor a codec has run.
CompressErrors ==
    call.op = "Compress"
    => /\ Len(call.data) = 0
          => (call.err = "InvalidData" /\ call.out = <<>>
              /\ call.steps = <<>>)
       /\ (Len(call.data) > 0 /\ call.opts.Codec \notin DOMAIN codecs)
          => (call.err = "InvalidCodec" /\ call.out = <<>>
              /\ call.steps = <<"lookup">>)

\* Compress of zero-length data with the unregistered codec id 99 returned
\* InvalidData
CompressErrorsWitness ==
    /\ call.op = "Compress" /\ Len(call.data) = 0
    /\ call.opts.Codec = 99 /\ call.opts.Shuffle = Shuffle1
    /\ call.err = "InvalidData" /\ call.out = <<>>

\* C17: a frame returned by Compress for non-empty data has Version 2,
\* VersionLZ = the requested codec id, NBytesOrig = BlockSize = len(data)
\* and NBytesComp = 16 + len(payload) = len(frame), so that
\* 16 <= NBytesComp <= len(frame); GetDecompressedSize(frame) is len(data).
ProducedHeader ==
    /\ (call.op = "Compress" /\ call.err = "nil")
       => /\ Len(call.data) > 0
          /\ Len(call.out) >= HeaderSize
          /\ At(call.out, 0) = FormatVersion
          /\ At(call.out, 1) = call.opts.Codec
          /\ Uint32(call.out, 4) = [hi |-> 0, lo |-> Len(call.data)]
          /\ Uint32(call.out, 8) = [hi |-> 0, lo |-> Len(call.data)]
          /\ Uint32(call.out, 12) = [hi |-> 0, lo |-> Len(call.out)]
    /\ (call.op = "GetDecompressedSize" /\ call.chained)
       => /\ call.err = "nil"
          /\ call.size = [hi |-> 0, lo |-> Len(call.data)]

\* GetDecompressedSize returned len(data) for a ZLIB frame whose payload is
\* shorter than the data it holds
ProducedHeaderWitness ==
    /\ call.op = "GetDecompressedSize" /\ call.chained
    /\ call.opts.Codec = ZLIB
    /\ ~HasFlag(At(call.input, 2), flagMemcpy)
    /\ Len(call.input) - HeaderSize < Len(call.data)
    /\ Uint32(call.input, 12) = [hi |-> 0, lo |-> Len(call.input)]
    /\ call.size = [hi |-> 0, lo |-> Len(call.data)]

\* C24: Compress sets the MEMCPY flag iff the codec's output for the
\* (possibly shuffled) data has len(data) bytes or more; without the flag
\* the payload is the codec's output; every frame has at most
\* 16 + len(data) bytes, a frame without the flag fewer.
MemcpyDecision ==
    (call.op = "Compress" /\ call.err = "nil")
    => LET ts == IF call.opts.TypeSize <= 0 THEN 1 ELSE call.opts.TypeSize
           level == IF call.opts.Level < 1 THEN 1
                    ELSE IF call.opts.Level > 9 THEN 9 ELSE call.opts.Level
           shuffled == IF call.opts.Shuffle = Shuffle1 /\ ts > 1
                       THEN shuffleBytes(call.data, ts)
                       ELSE IF call.opts.Shuffle = BitShuffle /\ ts > 1
                       THEN bitShuffle(call.data, ts)
                       ELSE call.data
           c == CodecCompress(codecs[call.opts.Codec], shuffled, level)
           memcpy == HasFlag(At(call.out, 2), flagMemcpy)
       IN  /\ memcpy <=> Len(c.out) >= Len(call.data)
           /\ ~memcpy => Slice(call.out, HeaderSize, Len(call.out)) = c.out
           /\ Len(call.out) <= HeaderSize + Len(call.data)
           /\ ~memcpy => Len(call.out) < HeaderSize + Len(call.data)

\* the LZ4 adapter returned exactly len(data) bytes (nothing gained) and
\* the frame was stored with MEMCPY
MemcpyDecisionWitness ==
    /\ call.op = "Compress" /\ call.err = "nil"
    /\ call.opts.Codec = LZ4 /\ call.opts.Shuffle = NoShuffle
    /\ Len(CodecCompress("lz4", call.data, 1).out) = Len(call.data)
    /\ HasFlag(At(call.out, 2), flagMemcpy)
    /\ Len(call.out) = HeaderSize + Len(call.data)

\* C25: in every produced frame SHUFFLE is set iff the requested mode is
\* Shuffle1, BITSHUFFLE iff it is BitShuffle, MEMCPY iff the payload is
\* the stored data; the three are independent of one another and of
\* typeSize, bits 3..7 are zero, SHUFFLE and BITSHUFFLE never come together.
ProducedFlags ==
    (call.op = "Compress" /\ call.err = "nil")
    => LET flags == At(call.out, 2)
       IN  /\ HasFlag(flags, flagShuffle) <=> call.opts.Shuffle = Shuffle1
           /\ HasFlag(flags, flagBitShuffle) <=> call.opts.Shuffle = BitShuffle
           /\ HasFlag(flags, flagMemcpy)
                <=> Len(call.out) = HeaderSize + Len(call.data)
           /\ flags < 8
           /\ ~(HasFlag(flags, flagShuffle) /\ HasFlag(flags, flagBitShuffle))

\* BitShuffle was requested with typeSize 1 and the data was stored raw:
\* both flags are set although no transform ran
ProducedFlagsWitness ==
    /\ call.op = "Compress" /\ call.err = "nil"
    /\ call.opts.Shuffle = BitShuffle /\ call.opts.TypeSize = 1
    /\ At(call.out, 2) = flagBitShuffle + flagMemcpy

\* C26: the pipeline disables shuffle when it chooses memcpy: a produced
\* frame with MEMCPY has neither SHUFFLE nor BITSHUFFLE, and Decompress
\* recovers the data from it without an inverse transform.
MemcpyDisablesShuffle ==
    /\ (call.op = "Compress" /\ call.err = "nil"
            /\ HasFlag(At(call.out, 2), flagMemcpy))
        => (~HasFlag(At(call.out, 2), flagShuffle)
            /\ ~HasFlag(At(call.out, 2), flagBitShuffle))
    /\ (call.op = "Decompress" /\ call.chained
            /\ HasFlag(At(call.input, 2), flagMemcpy))
        => (call.inverse = "none" /\ call.err = "nil"
            /\ call.out = call.data)

\* C27: CompressWithOptions with level < 1 returns what level 1 returns,
\* with level > 9 what level 9 returns, with typeSize <= 0 what typeSize 1
\* returns; no level or typeSize makes Compress fail (the adapter is only
\* reached with a level in 1..9).
OptionClamping ==
    call.op = "Compress"
    => LET level == IF call.opts.Level < 1 THEN 1
                    ELSE IF call.opts.Level > 9 THEN 9 ELSE call.opts.Level
           ts == IF call.opts.TypeSize <= 0 THEN 1 ELSE call.opts.TypeSize
           r == CompressWithOptions(call.data,
                    MkOptions(call.opts.Codec, level, call.opts.Shuffle, ts))
       IN  /\ call.out = r.out
           /\ call.err = r.err
           /\ call.err \in {"nil", "InvalidData", "InvalidCodec"}

\* level 12 and typeSize -1 gave a ZLIB frame whose stream carries the
\* level bits of level 9
OptionClampingWitness ==
    /\ call.op = "Compress" /\ call.err = "nil"
    /\ call.opts.Codec = ZLIB /\ call.opts.Level = 12
    /\ call.opts.TypeSize = -1
    /\ At(call.out, 2) = 0 /\ At(call.out, 3) = 1
    /\ At(call.out, HeaderSize + 1) = ZlibLevelBits(9)

\* C18: the TypeSize field of a produced header is the typeSize the encoder
\* shuffled with (1 when typeSize <= 0 was given), for every integer
\* typeSize, so that Decompress without override inverts with the same
\* element size.
TypeSizeRecorded ==
    (call.op = "Compress" /\ call.err = "nil")
        => At(call.out, 3) = (IF call.opts.TypeSize <= 0 THEN 1
                              ELSE call.opts.TypeSize)

-----------------------------------------------------------------------------
(* Calls of the header functions *)

\* 32-bit field values: zero, four different bytes, top bit set, all ones
FieldValues ==
    { [hi |-> 0, lo |-> 0], [hi |-> 1027, lo |-> 513],
      [hi |-> 32768, lo |-> 1], [hi |-> 65535, lo |-> 65535] }

\* Header values: the current version and another one, every kind of value
\* in the other six fields
HeaderSet ==
    { MkHeader(v, c, f, ts, o, b, n) :
        v \in {FormatVersion, 3}, c \in {0, 5, 255}, f \in {0, 7, 255},
        ts \in {0, 4, 255}, o \in FieldValues, b \in FieldValues,
        n \in FieldValues }

\* Byte slices handed to ParseHeader: 0..MaxLen+3 bytes, first byte the
\* current version or another one
RawHeaderSet ==
    { SrcBytes(pat, 0) : pat \in {"ramp"} }
    \cup { <<v>> \o SrcBytes(pat, n) :
            v \in {FormatVersion, 99}, pat \in {"ramp", "quad"},
            n \in 0..(MaxLen + 2) }

InitHeader ==
    /\ InitPackage
    /\ \/ \E h \in HeaderSet : arg = [kind |-> "header", h |-> h]
       \/ \E b \in RawHeaderSet : arg = [kind |-> "bytes", b |-> b]

\* h.Bytes() on the caller's header, or on the header ParseHeader returned
HeaderBytesCall ==
    /\ \/ /\ call.op = "init" /\ arg.kind = "header"
          /\ call' = [op |-> "Bytes", h |-> arg.h, out |-> Bytes(arg.h),
                      chained |-> FALSE, orig |-> <<>>]
       \/ /\ call.op = "ParseHeader" /\ ~call.chained /\ call.err = "nil"
          /\ call' = [op |-> "Bytes", h |-> call.h, out |-> Bytes(call.h),
                      chained |-> TRUE, orig |-> call.input]
    /\ Frame

\* ParseHeader on the caller's bytes, or on the bytes h.Bytes() returned
ParseHeaderCall ==
    /\ \/ /\ call.op = "init" /\ arg.kind = "bytes"
          /\ LET r == ParseHeader(arg.b)
             IN  call' = [op |-> "ParseHeader", input |-> arg.b, h |-> r.h,
                          err |-> r.err, chained |-> FALSE, orig |-> NilHeader]
       \/ /\ call.op = "Bytes" /\ ~call.chained
          /\ LET r == ParseHeader(call.out)
             IN  call' = [op |-> "ParseHeader", input |-> call.out, h |-> r.h,
                          err |-> r.err, chained |-> TRUE, orig |-> call.h]
    /\ Frame

NextHeader ==
    \/ HeaderBytesCall
    \/ ParseHeaderCall

SpecHeader == InitHeader /\ [][NextHeader]_vars

\* C7: ParseHeader(h.Bytes()) succeeds and returns h field by field for
\* every header with Version 2; ParseHeader(b).Bytes() is b for every
\* accepted 16-byte input b; Bytes() is 16 bytes with NBytesOrig, BlockSize
\* and NBytesComp little-endian at offsets 4, 8 and 12.
HeaderRoundTrip ==
    /\ (call.op = "ParseHeader" /\ call.chained
            /\ call.orig.Version = FormatVersion)
       => (call.err = "nil" /\ call.h = call.orig)
    /\ (call.op = "Bytes" /\ call.chained /\ Len(call.orig) = HeaderSize)
       => call.out = call.orig
    /\ call.op = "Bytes"
       => /\ Len(call.out) = HeaderSize
          /\ \A f \in {<<4, call.h.NBytesOrig>>, <<8, call.h.BlockSize>>,
                       <<12, call.h.NBytesComp>>} :
                /\ At(call.out, f[1]) + 256 * At(call.out, f[1] + 1) = f[2].lo
                /\ At(call.out, f[1] + 2) + 256 * At(call.out, f[1] + 3) = f[2].hi

\* a header whose three sizes have four different bytes each came back
\* unchanged from ParseHeader(h.Bytes())
HeaderRoundTripWitness ==
    /\ call.op = "ParseHeader" /\ call.chained /\ call.err = "nil"
    /\ call.orig.NBytesOrig = [hi |-> 1027, lo |-> 513]
    /\ call.orig.NBytesComp = [hi |-> 32768, lo |-> 1]
    /\ SubSeq(call.input, 5, 8) = <<1, 2, 3, 4>>
    /\ call.h = call.orig

-----------------------------------------------------------------------------
(* Calls on bytes that did not come from Compress *)

\* the data behind the payloads: runs of four equal bytes
PayloadData == DataBytes("runs", PayloadLen)

\* Payloads: what each library writes for PayloadData, the data itself, a
\* zlib stream without its last two bytes, bytes no decoder accepts
Payloads ==
    { lz4CompressBlock(PayloadData),
      zlibWrite(PayloadData, 6).out,
      zstdEncodeAll(1, PayloadData),
      snappyEncode(PayloadData),
      PayloadData,
      SubSeq(zlibWrite(PayloadData, 6).out, 1,
             Len(zlibWrite(PayloadData, 6).out) - 2),
      <<0, 1, 2>> }

\* header bytes followed by a payload
RawFrame(h, payload) == Bytes(h) \o payload

\* Frames of the current version around the payload pl: any codec id, flag
\* combination, element size and original size, and a compressed size
\* around the sizes the code compares it with
FramesAround(pl) ==
    { RawFrame(MkHeader(FormatVersion, c, f, ts, o, o, n), pl) :
        c \in {BloscLZ, LZ4, Snappy, ZLIB, ZSTD},
        f \in {0, 1, 2, 4, 5, 7},
        ts \in {0, 2},
        o \in { Uint32Of(0), Uint32Of(PayloadLen - 1), Uint32Of(PayloadLen),
                Uint32Of(PayloadLen + 1), [hi |-> 65535, lo |-> 65535] },
        n \in { Uint32Of(HeaderSize - 1), Uint32Of(HeaderSize),
                Uint32Of(HeaderSize + Len(pl) - 1),
                Uint32Of(HeaderSize + Len(pl)),
                Uint32Of(HeaderSize + Len(pl) + 1),
                [hi |-> 65535, lo |-> 65535] } }

VersionedFrames == UNION { FramesAround(pl) : pl \in Payloads }

\* every flags byte on a frame with consistent sizes, with a registered
\* codec id and with unregistered ones
FlagFrames ==
    { RawFrame(MkHeader(FormatVersion, c, f, 2, Uint32Of(PayloadLen),
                        Uint32Of(PayloadLen),
                        Uint32Of(HeaderSize + Len(pl))), pl) :
        c \in {LZ4, BloscLZ, 99, 255}, f \in 0..255,
        pl \in {lz4CompressBlock(PayloadData), PayloadData} }

\* frames of other versions, with sizes and codec ids that would be rejected
\* if they were looked at
OtherVersionFrames ==
    { RawFrame(MkHeader(v, c, f, 1, Uint32Of(PayloadLen), Uint32Of(PayloadLen),
                        n), PayloadData) :
        v \in {0, 1, 3, 99, 255}, c \in {LZ4, 99}, f \in {0, 2},
        n \in { Uint32Of(0), Uint32Of(HeaderSize + PayloadLen),
                Uint32Of(HeaderSize + PayloadLen + 1),
                [hi |-> 65535, lo |-> 65535] } }

\* inputs shorter than a header: the first bytes of a well-formed frame and
\* bytes that all differ
ShortInputs ==
    { SubSeq(RawFrame(MkHeader(FormatVersion, LZ4, flagMemcpy, 1,
                               Uint32Of(0), Uint32Of(0), Uint32Of(HeaderSize)),
                      <<>>), 1, n) : n \in 0..(HeaderSize - 1) }
    \cup { SrcBytes("ramp", n) : n \in 0..(HeaderSize - 1) }

InitUntrusted ==
    /\ InitPackage
    /\ \E b \in VersionedFrames \cup FlagFrames \cup OtherVersionFrames
                    \cup ShortInputs,
          ts \in {-1, 0, 2, 4} :
        /\ ts \in {0, 4} \/ b \in FlagFrames
        /\ arg = [bytes |-> b, typeSize |-> ts]

\* DecompressWithSize(data, typeSize) (Decompress(data) when typeSize = 0)
DecompressUntrustedCall ==
    /\ call.op = "init"
    /\ LET r == DecompressWithSize(arg.bytes, arg.typeSize)
       IN  call' = [op |-> "Decompress", input |-> arg.bytes,
                    typeSize |-> arg.typeSize,
                    out |-> r.out, err |-> r.err, panic |-> r.panic,
                    steps |-> r.steps, payload |-> r.payload,
                    inverse |-> r.inverse, chained |-> FALSE]
    /\ Frame

\* GetInfo(data)
GetInfoUntrustedCall ==
    /\ call.op = "init"
    /\ LET r == GetInfo(arg.bytes)
       IN  call' = [op |-> "GetInfo", input |-> arg.bytes, h |-> r.h,
                    err |-> r.err, panic |-> FALSE, chained |-> FALSE]
    /\ Frame

\* GetDecompressedSize(data)
GetDecompressedSizeUntrustedCall ==
    /\ call.op = "init"
    /\ LET r == GetDecompressedSize(arg.bytes)
       IN  call' = [op |-> "GetDecompressedSize", input |-> arg.bytes,
                    size |-> r.size, err |-> r.err, panic |-> FALSE,
                    chained |-> FALSE]
    /\ Frame

\* header.ShuffleMode() on the header GetInfo returned
ShuffleModeCall ==
    /\ call.op = "GetInfo" /\ call.err = "nil"
    /\ call' = [op |-> "ShuffleMode", input |-> call.input, h |-> call.h,
                mode |-> ShuffleMode(call.h), err |-> "nil", panic |-> FALSE,
                chained |-> TRUE]
    /\ Frame

NextUntrusted ==
    \/ DecompressUntrustedCall
    \/ GetInfoUntrustedCall
    \/ GetDecompressedSizeUntrustedCall
    \/ ShuffleModeCall

SpecUntrusted == InitUntrusted /\ [][NextUntrusted]_vars

\* the calls that take the caller's bytes
UntrustedOps == {"Decompress", "GetInfo", "GetDecompressedSize"}

\* the step named s is among the steps a Decompress call went through
Went(steps, s) == \E i \in DOMAIN steps : steps[i] = s

\* the NBytesOrig and NBytesComp fields of the input of a call
InputOrig(input) == Uint32(input, 4)
InputComp(input) == Uint32(input, 12)

\* C3: when Decompress/DecompressWithSize returns without error the output
\* is NBytesOrig bytes long; a decoded length that differs ends in
\* SizeMismatch (every other return is one of the earlier errors).
DecompressedSizeVerified ==
    (call.op = "Decompress" /\ ~call.panic)
    => /\ call.err = "nil"
            => (InputOrig(call.input).hi = 0
                /\ InputOrig(call.input).lo = Len(call.out))
       /\ call.err \in {"nil", "SizeMismatch", "InvalidHeader",
                        "InvalidVersion", "InvalidData", "InvalidCodec",
                        "DecompressionFailed"}
       /\ call.err = "SizeMismatch" => Went(call.steps, "verify")

\* a zlib frame whose NBytesOrig is one less than what the stream holds was
\* decompressed without error to NBytesOrig bytes
DecompressedSizeVerifiedWitness ==
    /\ call.op = "Decompress" /\ call.err = "nil"
    /\ At(call.input, 1) = ZLIB /\ At(call.input, 2) = 0
    /\ InputOrig(call.input) = Uint32Of(PayloadLen - 1)
    /\ Len(call.out) = PayloadLen - 1

\* the length of the data the payload of a frame encodes: the payload's own
\* length on the memcpy path, else what the frame's codec decodes from it
\* into a buffer that is large enough
DecodedLength(input, payload) ==
    IF HasFlag(At(input, 2), flagMemcpy) THEN Len(payload)
    ELSE Len(CodecDecompress(codecs[At(input, 1)], payload,
                             [hi |-> 0, lo |-> Limb - 1]).out)

\* C20: a frame whose NBytesOrig differs from the length of the data its
\* payload encodes is never decompressed successfully, on the codec paths
\* and on the memcpy path: no truncated or padded result is returned.
DeclaredSizeChecked ==
    (call.op = "Decompress" /\ ~call.panic /\ call.err = "nil")
        => InputOrig(call.input)
               = Uint32Of(DecodedLength(call.input, call.payload))

\* C21: DecompressWithSize(frame, ts) inverts the shuffle with element size
\* ts when ts > 0 and with the header's TypeSize when ts <= 0: with ts <= 0
\* or ts = header.TypeSize it returns what Decompress(frame) returns, and
\* no ts changes the error, the steps taken (codec, size verification) or
\* the payload.
TypeSizeOverride ==
    (call.op = "Decompress" /\ ~call.chained)
    => LET plain == DecompressWithSize(call.input, 0)
           ts == call.typeSize
       IN  /\ call.err = plain.err
           /\ call.steps = plain.steps
           /\ call.payload = plain.payload
           /\ (ts <= 0 \/ (Len(call.input) >= HeaderSize
                            /\ ts = At(call.input, 3)))
               => call.out = plain.out
           /\ (call.err = "nil" /\ ts > 0)
               => call.inverse
                    = (IF HasFlag(At(call.input, 2), flagBitShuffle) /\ ts > 1
                       THEN "bit"
                       ELSE IF HasFlag(At(call.input, 2), flagShuffle) /\ ts > 1
                       THEN "byte" ELSE "none")

\* an override of 4 on a shuffled frame with TypeSize 2 gave other bytes
\* than Decompress gives, an override of 2 would not
TypeSizeOverrideWitness ==
    /\ call.op = "Decompress" /\ call.err = "nil"
    /\ call.typeSize = 4 /\ At(call.input, 3) = 2
    /\ call.inverse = "byte"
    /\ call.out # DecompressWithSize(call.input, 0).out
    /\ DecompressWithSize(call.input, 2).out
            = DecompressWithSize(call.input, 0).out

\* C4: Decompress/DecompressWithSize, GetInfo and GetDecompressedSize end
\* with an error value or a result for arbitrary bytes: no call panics.
NoPanic ==
    call.op \in UntrustedOps => ~call.panic

\* C5: with 16 or more bytes and Version 2, NBytesComp < 16 or
\* NBytesComp > len(input) makes Decompress return InvalidData before the
\* MEMCPY flag or a codec is looked at; otherwise the payload of the later
\* steps is input[16:NBytesComp].
SizeValidation ==
    (call.op = "Decompress" /\ Len(call.input) >= HeaderSize
        /\ At(call.input, 0) = FormatVersion)
    => IF InputComp(call.input).hi > 0
          \/ InputComp(call.input).lo > Len(call.input)
          \/ (InputComp(call.input).hi = 0
              /\ InputComp(call.input).lo < HeaderSize)
       THEN call.err = "InvalidData" /\ call.steps = <<"parse", "sizes">>
       ELSE /\ Went(call.steps, "payload")
            /\ call.payload = Slice(call.input, HeaderSize,
                                    InputComp(call.input).lo)

\* C6: an input shorter than 16 bytes yields InvalidHeader, an input of 16
\* bytes or more whose first byte is not 2 yields InvalidVersion, in
\* Decompress/DecompressWithSize, GetInfo and GetDecompressedSize, whatever
\* sizes, flags and codec id the input holds.
HeaderErrorPrecedence ==
    call.op \in UntrustedOps
    => /\ Len(call.input) < HeaderSize => call.err = "InvalidHeader"
       /\ (Len(call.input) >= HeaderSize
            /\ At(call.input, 0) # FormatVersion)
          => call.err = "InvalidVersion"

\* Decompress of a frame with Version 99, an unregistered codec id and
\* NBytesComp larger than the input returned InvalidVersion
HeaderErrorPrecedenceWitness ==
    /\ call.op = "Decompress" /\ call.err = "InvalidVersion"
    /\ At(call.input, 0) = 99 /\ At(call.input, 1) = 99
    /\ InputComp(call.input) = Uint32Of(Len(call.input) + 1)

\* C8: ShuffleMode is BitShuffle when bit 2 of the flags is set, else
\* Shuffle1 when bit 0 is set, else NoShuffle; Decompress picks its inverse
\* transform by the same order, so with both flags set the decoded bytes
\* are bit-unshuffled and not byte-unshuffled.
ShuffleFlagPrecedence ==
    /\ call.op = "ShuffleMode"
       => call.mode = (IF BitAt(At(call.input, 2), 2) = 1 THEN BitShuffle
                       ELSE IF BitAt(At(call.input, 2), 0) = 1 THEN Shuffle1
                       ELSE NoShuffle)
    /\ (call.op = "Decompress" /\ Went(call.steps, "unshuffle"))
       => LET ts == IF call.typeSize <= 0 THEN At(call.input, 3)
                    ELSE call.typeSize
              flags == At(call.input, 2)
          IN  /\ call.inverse = (IF ts <= 1 THEN "none"
                                 ELSE IF BitAt(flags, 2) = 1 THEN "bit"
                                 ELSE IF BitAt(flags, 0) = 1 THEN "byte"
                                 ELSE "none")
              /\ (call.err = "nil" /\ BitAt(flags, 1) = 1 /\ ts > 1
                    /\ BitAt(flags, 2) = 1)
                 => call.out = bitUnshuffle(call.payload, ts)

\* ShuffleMode returned BitShuffle for a header with flags 5 (SHUFFLE and
\* BITSHUFFLE)
ShuffleFlagPrecedenceWitness ==
    /\ call.op = "ShuffleMode" /\ At(call.input, 2) = 5
    /\ call.mode = BitShuffle

\* the input is a frame of the current version whose NBytesComp lies in
\* 16..len(input) and whose codec id is not registered
UnknownCodecFrame(input) ==
    /\ Len(input) >= HeaderSize
    /\ At(input, 0) = FormatVersion
    /\ InputComp(input).hi = 0
    /\ InputComp(input).lo >= HeaderSize
    /\ InputComp(input).lo <= Len(input)
    /\ At(input, 1) \notin DOMAIN codecs

\* C14 as stated: Decompress of a frame with Version 2, consistent sizes and
\* an unregistered VersionLZ (0, 99, 255) returns InvalidCodec for every
\* value of the Flags byte.
UnknownCodecRejected ==
    (call.op = "Decompress" /\ UnknownCodecFrame(call.input))
    => call.err = "InvalidCodec"

\* C14 amended: such a frame yields InvalidCodec for every Flags byte
\* without the MEMCPY bit; with the MEMCPY bit set VersionLZ is never looked
\* up, the payload is copied and the call ends with the result or with
\* SizeMismatch.
UnknownCodecRejectedUnlessMemcpy ==
    (call.op = "Decompress" /\ UnknownCodecFrame(call.input))
    => IF BitAt(At(call.input, 2), 1) = 0
       THEN call.err = "InvalidCodec"
       ELSE /\ call.err \in {"nil", "SizeMismatch"}
            /\ ~Went(call.steps, "lookup")
            /\ Went(call.steps, "memcpy")

\* a frame with codec id 255 and every flag but MEMCPY set was answered
\* with InvalidCodec after the lookup
UnknownCodecRejectedUnlessMemcpyWitness ==
    /\ call.op = "Decompress" /\ UnknownCodecFrame(call.input)
    /\ At(call.input, 1) = 255 /\ At(call.input, 2) = 253
    /\ call.err = "InvalidCodec" /\ Went(call.steps, "lookup")

-----------------------------------------------------------------------------
(* Calls from several goroutines *)

(***************************************************************************)
(* Each goroutine makes one call on buffers of its own.  The process-wide  *)
(* variables are the registry (codecs) and the SIMD flags (useAVX2,        *)
(* useNEON).  None of the functions takes a lock, so an access to one of   *)
(* these variables is an interval, from the step that begins it to the     *)
(* step that ends it, during which other goroutines may run.  A map read   *)
(* or write that overlaps a write of another goroutine is a data race:     *)
(* the Go runtime may stop the process ("concurrent map read and map       *)
(* write") or let the access go through.                                   *)
(***************************************************************************)

Goroutines == 1..NumGoroutines

\* (mutant) an id that is registered keeps its implementation
RegisterCodecIfAbsent(id, codec) ==
    [i \in DOMAIN codecs \cup {id} |->
        IF i \in DOMAIN codecs THEN codecs[i] ELSE codec]

\* RegisterCodec: the registry after codecs[id] = codec
RegisterCodec(id, codec) ==
    [i \in DOMAIN codecs \cup {id} |-> IF i = id THEN codec ELSE codecs[i]]

\* GetCodec: the implementation (none when ok is false)
GetCodec(id) ==
    IF id \in DOMAIN codecs THEN [out |-> <<codecs[id]>>, err |-> "nil"]
    ELSE [out |-> <<>>, err |-> "nil"]

\* ListCodecs: the ids, in the arbitrary order of a map range
ListCodecs == [out |-> DOMAIN codecs, err |-> "nil"]

\* one call: the function, and its arguments
Prog(op, id, data, opts) == [op |-> op, id |-> id, data |-> data, opts |-> opts]

\* a frame for Decompress / GetInfo
ConcFrame(c, flags, ts, pl) ==
    RawFrame(MkHeader(FormatVersion, c, flags, ts, Uint32Of(PayloadLen),
                      Uint32Of(PayloadLen), Uint32Of(HeaderSize + Len(pl))), pl)

\* The calls a goroutine may make
Progs ==
    LET none == MkOptions(0, 0, NoShuffle, 0)
    IN  { Prog("RegisterCodec", 99, <<>>, none),
          Prog("RegisterCodec", LZ4, <<>>, none),
          Prog("GetCodec", LZ4, <<>>, none),
          Prog("GetCodec", 99, <<>>, none),
          Prog("ListCodecs", 0, <<>>, none),
          Prog("Compress", 0, PayloadData, MkOptions(LZ4, 5, Shuffle1, 4)),
          Prog("Compress", 0, PayloadData, MkOptions(99, 5, NoShuffle, 1)),
          Prog("Compress", 0, <<>>, MkOptions(LZ4, 5, NoShuffle, 1)),
          Prog("Decompress", 0,
               ConcFrame(LZ4, flagBitShuffle, 2, lz4CompressBlock(PayloadData)),
               none),
          Prog("Decompress", 0, ConcFrame(99, flagMemcpy, 1, PayloadData), none),
          Prog("GetInfo", 0, ConcFrame(ZSTD, 0, 1, <<>>), none),
          Prog("ShuffleBuffer", 0, PayloadData, MkOptions(0, 0, Shuffle1, 4)),
          Prog("UnshuffleBuffer", 0, PayloadData, MkOptions(0, 0, BitShuffle, 2)) }

\* what the call returns when nothing else runs, in the current registry
SoloResult(p) ==
    CASE p.op = "RegisterCodec" -> [out |-> <<>>, err |-> "nil"]
      [] p.op = "GetCodec" -> GetCodec(p.id)
      [] p.op = "ListCodecs" -> ListCodecs
      [] p.op = "Compress" ->
            LET r == CompressWithOptions(p.data, p.opts)
            IN  [out |-> r.out, err |-> r.err]
      [] p.op = "Decompress" ->
            LET r == DecompressWithSize(p.data, 0)
            IN  [out |-> r.out, err |-> r.err]
      [] p.op = "GetInfo" ->
            LET r == GetInfo(p.data) IN [out |-> <<r.h>>, err |-> r.err]
      [] p.op = "ShuffleBuffer" ->
            [out |-> ShuffleBuffer(p.data, p.opts.TypeSize, p.opts.Shuffle),
             err |-> "nil"]
      [] OTHER ->
            [out |-> UnshuffleBuffer(p.data, p.opts.TypeSize, p.opts.Shuffle),
             err |-> "nil"]

\* a transform of this mode on n bytes reads useAVX2 / useNEON
ReadsSIMD(mode, typeSize, n) ==
    /\ typeSize > 1 /\ n >= typeSize
    /\ mode = BitShuffle \/ (mode = Shuffle1 /\ typeSize = 4)

\* (mutant) every use of a process-wide variable stores to it
AccessKindAllWrites(op, v) == "write"

\* how a call uses the process-wide variable v
AccessKind(op, v) ==
    IF op = "RegisterCodec" /\ v = "codecs" THEN "write" ELSE "read"

\* goroutines g and h are inside accesses that conflict
Conflict(procs, g, h) ==
    /\ g # h
    /\ procs[g].pc \in {"codecs", "simd"}
    /\ procs[h].pc = procs[g].pc
    /\ "write" \in {AccessKind(arg.prog[g].op, procs[g].pc),
                    AccessKind(arg.prog[h].op, procs[h].pc)}

\* goroutines g and h are inside accesses that conflict
InConflict(g, h) == call.op = "go" /\ Conflict(call.procs, g, h)

InitConcurrent ==
    /\ InitPackage
    /\ \E prog \in [Goroutines -> Progs] :
        arg = [prog |-> prog, useAVX2 |-> useAVX2, useNEON |-> useNEON]

\* the go statements: every goroutine is about to make its call
GoStart ==
    /\ call.op = "init"
    /\ call' = [op |-> "go", fatal |-> FALSE,
                procs |-> [g \in Goroutines |->
                            [pc |-> "ready", raced |-> FALSE,
                             result |-> [out |-> <<>>, err |-> "pending"]]]]
    /\ UNCHANGED <<codecs, useAVX2, useNEON, intBits, arg>>

\* goroutine g begins its access to the process-wide variable v
BeginAccess(g, v) ==
    LET entered == [call.procs EXCEPT ![g].pc = v]
        hit == { h \in Goroutines : Conflict(entered, g, h) }
    IN  /\ call' = [call EXCEPT !.procs =
                        [h \in Goroutines |->
                            IF h \in hit \/ (h = g /\ hit # {})
                            THEN [entered[h] EXCEPT !.raced = TRUE]
                            ELSE entered[h]]]
        /\ UNCHANGED <<codecs, useAVX2, useNEON, intBits, arg>>

\* goroutine g returns from its call
Return(g, result) ==
    call' = [call EXCEPT !.procs[g].pc = "done", !.procs[g].result = result]

\* goroutine g ends its access to the registry: the map statement takes
\* effect (registry is the map after it), or the runtime stops the process
\* when the access was part of a data race
EndRegistryAccess(g, registry, usesSIMD, result) ==
    \/ /\ codecs' = registry
       /\ call' = [call EXCEPT
                    !.procs[g].pc = IF usesSIMD THEN "mid" ELSE "done",
                    !.procs[g].result = result]
       /\ UNCHANGED <<useAVX2, useNEON, intBits, arg>>
    \/ /\ call.procs[g].raced
       /\ call' = [call EXCEPT !.fatal = TRUE,
                               !.procs[g].pc = "done",
                               !.procs[g].result =
                                    [out |-> <<>>, err |-> "fatal"]]
       /\ UNCHANGED <<codecs, useAVX2, useNEON, intBits, arg>>

\* The next step of the call of goroutine g: a call that reaches a registry
\* statement (usesRegistry) passes through an access to codecs, a call that
\* reaches a transform reading the SIMD flags (usesSIMD) through an access
\* to them; registry is the map after the call's registry statement, result
\* what the call returns (fixed at the registry statement when there is one).
GoStep(g, usesRegistry, usesSIMD, registry, result) ==
    /\ call.op = "go" /\ ~call.fatal
    /\ \/ /\ call.procs[g].pc = "ready" /\ usesRegistry
          /\ BeginAccess(g, "codecs")
       \/ /\ call.procs[g].pc = "ready" /\ ~usesRegistry /\ usesSIMD
          /\ BeginAccess(g, "simd")
       \/ /\ call.procs[g].pc = "ready" /\ ~usesRegistry /\ ~usesSIMD
          /\ Return(g, result)
          /\ UNCHANGED <<codecs, useAVX2, useNEON, intBits, arg>>
       \/ /\ call.procs[g].pc = "codecs"
          /\ EndRegistryAccess(g, registry, usesSIMD, result)
       \/ /\ call.procs[g].pc = "mid"
          /\ BeginAccess(g, "simd")
       \/ /\ call.procs[g].pc = "simd"
          /\ Return(g, IF usesRegistry THEN call.procs[g].result ELSE result)
          /\ UNCHANGED <<codecs, useAVX2, useNEON, intBits, arg>>

\* RegisterCodec(id, mock) in goroutine g
GoRegisterCodec ==
    \E g \in Goroutines :
        /\ arg.prog[g].op = "RegisterCodec"
        /\ GoStep(g, TRUE, FALSE, RegisterCodec(arg.prog[g].id, "mock"),
                  [out |-> <<>>, err |-> "nil"])

\* GetCodec(id) in goroutine g
GoGetCodec ==
    \E g \in Goroutines :
        /\ arg.prog[g].op = "GetCodec"
        /\ GoStep(g, TRUE, FALSE, codecs, GetCodec(arg.prog[g].id))

\* ListCodecs() in goroutine g
GoListCodecs ==
    \E g \in Goroutines :
        /\ arg.prog[g].op = "ListCodecs"
        /\ GoStep(g, TRUE, FALSE, codecs, ListCodecs)

\* Compress in goroutine g: the lookup follows the emptiness check, the
\* shuffle follows a successful lookup
GoCompress ==
    \E g \in Goroutines :
        /\ arg.prog[g].op = "Compress"
        /\ LET p == arg.prog[g]
               r == CompressWithOptions(p.data, p.opts)
           IN  GoStep(g, Len(p.data) > 0,
                      /\ Len(p.data) > 0
                      /\ p.opts.Codec \in DOMAIN codecs
                      /\ ReadsSIMD(p.opts.Shuffle, p.opts.TypeSize, Len(p.data)),
                      codecs, [out |-> r.out, err |-> r.err])

\* Decompress in goroutine g: the lookup is made for frames without MEMCPY
\* that pass the size checks, the inverse transform follows the decoding
GoDecompress ==
    \E g \in Goroutines :
        /\ arg.prog[g].op = "Decompress"
        /\ LET p == arg.prog[g]
               r == DecompressWithSize(p.data, 0)
           IN  GoStep(g, Went(r.steps, "lookup"),
                      /\ Went(r.steps, "unshuffle")
                      /\ ReadsSIMD(IF r.inverse = "bit" THEN BitShuffle
                                   ELSE IF r.inverse = "byte" THEN Shuffle1
                                   ELSE NoShuffle,
                                   At(p.data, 3), Len(r.out)),
                      codecs, [out |-> r.out, err |-> r.err])

\* GetInfo in goroutine g
GoGetInfo ==
    \E g \in Goroutines :
        /\ arg.prog[g].op = "GetInfo"
        /\ GoStep(g, FALSE, FALSE, codecs,
                  [out |-> <<GetInfo(arg.prog[g].data).h>>,
                   err |-> GetInfo(arg.prog[g].data).err])

\* ShuffleBuffer in goroutine g
GoShuffleBuffer ==
    \E g \in Goroutines :
        /\ arg.prog[g].op = "ShuffleBuffer"
        /\ LET p == arg.prog[g]
           IN  GoStep(g, FALSE,
                      ReadsSIMD(p.opts.Shuffle, p.opts.TypeSize, Len(p.data)),
                      codecs,
                      [out |-> ShuffleBuffer(p.data, p.opts.TypeSize,
                                             p.opts.Shuffle),
                       err |-> "nil"])

\* UnshuffleBuffer in goroutine g
GoUnshuffleBuffer ==
    \E g \in Goroutines :
        /\ arg.prog[g].op = "UnshuffleBuffer"
        /\ LET p == arg.prog[g]
           IN  GoStep(g, FALSE,
                      ReadsSIMD(p.opts.Shuffle, p.opts.TypeSize, Len(p.data)),
                      codecs,
                      [out |-> UnshuffleBuffer(p.data, p.opts.TypeSize,
                                               p.opts.Shuffle),
                       err |-> "nil"])

NextConcurrent ==
    \/ GoStart
    \/ GoRegisterCodec
    \/ GoGetCodec
    \/ GoListCodecs
    \/ GoCompress
    \/ GoDecompress
    \/ GoGetInfo
    \/ GoShuffleBuffer
    \/ GoUnshuffleBuffer

SpecConcurrent == InitConcurrent /\ [][NextConcurrent]_vars

\* C15: in every interleaving of RegisterCodec, GetCodec, ListCodecs,
\* Compress, Decompress, GetInfo, ShuffleBuffer and UnshuffleBuffer calls
\* no two goroutines are at the same time inside accesses to the same
\* process-wide variable of which one is a write.
RaceFree ==
    \A g, h \in Goroutines : ~InConflict(g, h)

\* no goroutine calls RegisterCodec
NoRegistration == \A g \in Goroutines : arg.prog[g].op # "RegisterCodec"

\* C16: when no goroutine calls RegisterCodec, no call writes the
\* registry or the SIMD flags, no access conflicts with another, and every
\* call returns what it returns when run alone.
ReadersIndependent ==
    (call.op = "go" /\ NoRegistration)
    => /\ codecs = BuiltinCodecs
       /\ useAVX2 = arg.useAVX2 /\ useNEON = arg.useNEON
       /\ ~call.fatal
       /\ \A g \in Goroutines :
            /\ call.procs[g].pc \in {"codecs", "simd"}
               => AccessKind(arg.prog[g].op, call.procs[g].pc) = "read"
            /\ ~call.procs[g].raced
            /\ call.procs[g].pc = "done"
               => call.procs[g].result = SoloResult(arg.prog[g])

\* a Compress and a Decompress ran in two goroutines and both returned
\* what they return alone
ReadersIndependentWitness ==
    /\ call.op = "go" /\ NoRegistration
    /\ \E g, h \in Goroutines :
        /\ arg.prog[g].op = "Compress" /\ arg.prog[h].op = "Decompress"
        /\ call.procs[g].pc = "done" /\ call.procs[h].pc = "done"
        /\ call.procs[g].result.err = "nil"
        /\ call.procs[h].result = [out |-> PayloadData, err |-> "nil"]

-----------------------------------------------------------------------------
(* Compress on data whose length needs more than 32 bits.  The bytes of such
   data are left out: a slice is its length, a Go int, kept as three 16-bit
   limbs [top, hi, lo]; the codec's output is a length the library chooses. *)

\* len(x) as a Go int
MkSize(top, hi, lo) == [top |-> top, hi |-> hi, lo |-> lo]

\* a >= b on ints
SizeGe(a, b) ==
    \/ a.top > b.top
    \/ a.top = b.top /\ a.hi > b.hi
    \/ a.top = b.top /\ a.hi = b.hi /\ a.lo >= b.lo

\* HeaderSize + n on ints
SizePlusHeader(n) ==
    LET lo == n.lo + HeaderSize
        hi == n.hi + lo \div Limb
    IN  MkSize(n.top + hi \div Limb, hi % Limb, lo % Limb)

\* uint32(n): the conversion keeps the low 32 bits
Uint32OfSize(n) == [hi |-> n.hi, lo |-> n.lo]

\* n is within the unsigned 32-bit range
FitsUint32(n) == n.top = 0

\* Result of Compress on lengths: the 16 header bytes, the length of the
\* payload and of the returned frame, and the error
LRet(header, payloadLen, frameLen, err) ==
    [header |-> header, payloadLen |-> payloadLen, frameLen |-> frameLen,
     err |-> err]

\* compressBackend, with len(data) = n and the codec returning clen bytes
\* (or an error, cerr)
compressBackendSizes(n, opts, clen, cerr) ==
    IF opts.Codec \notin DOMAIN codecs
    THEN LRet(<<>>, MkSize(0, 0, 0), MkSize(0, 0, 0), "InvalidCodec")
    ELSE IF cerr
    THEN LRet(<<>>, MkSize(0, 0, 0), MkSize(0, 0, 0), "CompressionFailed")
    ELSE
    LET useMemcpy == SizeGe(clen, n)
        compressed == IF useMemcpy THEN n ELSE clen
        flags == ShuffleFlag(opts) + (IF useMemcpy THEN flagMemcpy ELSE 0)
        header == MkHeader(FormatVersion, opts.Codec, flags,
                           opts.TypeSize % 256, Uint32OfSize(n),
                           Uint32OfSize(n),
                           Uint32OfSize(SizePlusHeader(compressed)))
    IN  LRet(Bytes(header), compressed, SizePlusHeader(compressed), "nil")

\* CompressWithOptions on lengths
CompressWithOptionsSizes(n, opts, clen, cerr) ==
    IF n = MkSize(0, 0, 0)
    THEN LRet(<<>>, MkSize(0, 0, 0), MkSize(0, 0, 0), "InvalidData")
    ELSE compressBackendSizes(n, ClampOptions(opts), clen, cerr)

\* Lengths around the limb borders; top > 0 is 4 GiB or more.  The codec's
\* output is never empty.
Sizes ==
    { MkSize(top, hi, lo) : top \in {0, 1, 2}, hi \in {0, 1, Limb - 1},
                            lo \in {0, 1, Limb - HeaderSize, Limb - 1} }

\* A slice of a 32-bit build has fewer than 2^31 bytes
SliceOf(bits, n) == bits = 64 \/ (n.top = 0 /\ n.hi < HalfLimb)

InitLarge ==
    /\ InitPackage
    /\ \E n \in Sizes, clen \in Sizes, cerr \in BOOLEAN,
          c \in {LZ4, ZLIB, 99}, sh \in {NoShuffle, Shuffle1} :
        /\ SliceOf(intBits, n) /\ SliceOf(intBits, clen)
        /\ clen # MkSize(0, 0, 0)
        /\ arg = [n |-> n, clen |-> clen, cerr |-> cerr,
                  opts |-> MkOptions(c, 5, sh, 4)]

\* Compress(data, codec, level, shuffle, typeSize) with len(data) = arg.n
CompressLargeCall ==
    /\ call.op = "init"
    /\ LET r == CompressWithOptionsSizes(arg.n, arg.opts, arg.clen, arg.cerr)
       IN  call' = [op |-> "Compress", n |-> arg.n, header |-> r.header,
                    payloadLen |-> r.payloadLen, frameLen |-> r.frameLen,
                    err |-> r.err]
    /\ Frame

\* GetDecompressedSize(frame) on the frame Compress returned: it reads the
\* first HeaderSize bytes
GetDecompressedSizeLargeCall ==
    /\ call.op = "Compress" /\ call.err = "nil"
    /\ LET r == GetDecompressedSize(call.header)
       IN  call' = [op |-> "GetDecompressedSize", n |-> call.n,
                    header |-> call.header, payloadLen |-> call.payloadLen,
                    frameLen |-> call.frameLen, size |-> r.size,
                    err |-> r.err]
    /\ Frame

NextLarge ==
    \/ CompressLargeCall
    \/ GetDecompressedSizeLargeCall

SpecLarge == InitLarge /\ [][NextLarge]_vars

\* C19: Compress returns DataTooLarge, and no frame, when len(data) or
\* 16 + len(payload) is beyond the unsigned 32-bit range; no frame carries
\* a size field that is the true size modulo 2^32.
DataTooLargeReturned ==
    /\ (call.op = "Compress" /\ ~FitsUint32(call.n))
        => (call.err = "DataTooLarge" /\ call.header = <<>>)
    /\ (call.op = "Compress" /\ call.err = "nil")
        => /\ FitsUint32(call.n)
           /\ FitsUint32(call.frameLen)
           /\ Uint32(call.header, 4) = Uint32OfSize(call.n)
           /\ Uint32(call.header, 12) = Uint32OfSize(call.frameLen)

-----------------------------------------------------------------------------
(* Sequences of registry calls made one after the other *)

RECURSIVE SortedIds(_)
\* the ids of a set, ascending
SortedIds(ids) ==
    IF ids = {} THEN <<>>
    ELSE LET m == CHOOSE x \in ids : \A y \in ids : x <= y
         IN  <<m>> \o SortedIds(ids \ {m})

\* for id := range codecs: every key once, beginning at a key the runtime
\* picks (start)
MapRange(start) ==
    LET s == SortedIds(DOMAIN codecs)
        n == Len(s)
    IN  [i \in 1..n |-> s[((i - 1 + start) % n) + 1]]

RECURSIVE AppendIds(_, _)
\* result = append(result, id) for the ids of order
AppendIds(result, order) ==
    IF order = <<>> THEN result
    ELSE AppendIds(Append(result, order[1]), Tail(order))

\* ListCodecs as the slice it returns, for a range beginning at start
ListCodecsSlice(start) == AppendIds(<<>>, MapRange(start))

\* ids and implementations handed to the registry calls
RegistryIds == {BloscLZ, LZ4, 99, 255}
Implementations == {"mock", "mock2"}

InitRegistry ==
    /\ InitPackage
    /\ arg = [calls |-> MaxCalls]

\* the number of calls made so far, and the last implementation registered
\* under each id by a call
CallsMade == IF call.op = "init" THEN 0 ELSE call.n
Registered == IF call.op = "init" THEN <<>> ELSE call.registered

\* RegisterCodec(id, codec)
RegisterCodecCall ==
    /\ CallsMade < arg.calls
    /\ \E id \in RegistryIds, c \in Implementations :
        /\ codecs' = RegisterCodec(id, c)
        /\ call' = [op |-> "RegisterCodec", n |-> CallsMade + 1, id |-> id,
                    codec |-> c, before |-> codecs,
                    registered |->
                        [i \in DOMAIN Registered \cup {id} |->
                            IF i = id THEN c ELSE Registered[i]]]
    /\ UNCHANGED <<useAVX2, useNEON, intBits, arg>>

\* GetCodec(id)
GetCodecCall ==
    /\ CallsMade < arg.calls
    /\ \E id \in RegistryIds :
        call' = [op |-> "GetCodec", n |-> CallsMade + 1, id |-> id,
                 found |-> GetCodec(id).out, before |-> codecs,
                 registered |-> Registered]
    /\ Frame

\* ListCodecs()
ListCodecsCall ==
    /\ CallsMade < arg.calls
    /\ \E start \in 0..(Cardinality(DOMAIN codecs) - 1) :
        call' = [op |-> "ListCodecs", n |-> CallsMade + 1,
                 list |-> ListCodecsSlice(start), before |-> codecs,
                 registered |-> Registered]
    /\ Frame

NextRegistry ==
    \/ RegisterCodecCall
    \/ GetCodecCall
    \/ ListCodecsCall

SpecRegistry == InitRegistry /\ [][NextRegistry]_vars

\* C22: initially exactly LZ4, LZ4HC, Snappy, ZLIB and ZSTD are registered
\* (BloscLZ is not); RegisterCodec(id, c) sets the entry of id and leaves
\* the others alone, and GetCodec(id) returns c until id is registered
\* again; GetCodec and ListCodecs leave the registry alone; GetCodec of an
\* unregistered id finds nothing; ListCodecs returns every registered id
\* exactly once.
RegistryBehaviour ==
    /\ call.op = "init"
        => DOMAIN codecs = {LZ4, LZ4HC, Snappy, ZLIB, ZSTD}
    /\ call.op = "RegisterCodec"
        => /\ DOMAIN codecs = DOMAIN call.before \cup {call.id}
           /\ codecs[call.id] = call.codec
           /\ \A i \in DOMAIN call.before \ {call.id} :
                codecs[i] = call.before[i]
    /\ call.op \in {"GetCodec", "ListCodecs"} => codecs = call.before
    /\ call.op = "GetCodec"
        => /\ call.id \in DOMAIN call.registered
                => call.found = <<call.registered[call.id]>>
           /\ call.id \notin DOMAIN call.registered
                    \cup {LZ4, LZ4HC, Snappy, ZLIB, ZSTD}
                => call.found = <<>>
    /\ call.op = "ListCodecs"
        => /\ Len(call.list) = Cardinality(DOMAIN codecs)
           /\ {call.list[i] : i \in DOMAIN call.list} = DOMAIN codecs

\* GetCodec(LZ4), the third call of a sequence, returned the mock that
\* replaced the built-in LZ4; LZ4HC kept its built-in implementation
RegistryBehaviourWitness ==
    /\ call.op = "GetCodec" /\ call.id = LZ4 /\ call.n = 3
    /\ call.found = <<"mock2">>
    /\ codecs[LZ4HC] = "lz4hc"

-----------------------------------------------------------------------------
(* Calls of the codec adapters themselves (GetCodec(id), then its methods) *)

InitCodec ==
    /\ InitPackage
    /\ \E d \in DataSet \ {<<>>}, id \in DOMAIN BuiltinCodecs, l \in 1..9 :
        arg = [data |-> d, id |-> id, level |-> l]

\* codec.Compress(data, level)
CodecCompressCall ==
    /\ call.op = "init"
    /\ LET r == CodecCompress(codecs[arg.id], arg.data, arg.level)
       IN  call' = [op |-> "Compress", id |-> arg.id, data |-> arg.data,
                    out |-> r.out, err |-> r.err]
    /\ Frame

\* codec.Decompress(compressed, len(data)) on what Compress returned
CodecDecompressCall ==
    /\ call.op = "Compress" /\ call.err = "nil"
    /\ LET r == CodecDecompress(codecs[call.id], call.out,
                                Uint32Of(Len(call.data)))
       IN  call' = [op |-> "Decompress", id |-> call.id, data |-> call.data,
                    input |-> call.out, out |-> r.out, err |-> r.err,
                    panic |-> r.panic]
    /\ Frame

NextCodec ==
    \/ CodecCompressCall
    \/ CodecDecompressCall

SpecCodec == InitCodec /\ [][NextCodec]_vars

\* C23: for every built-in codec c, level 1..9 and non-empty d,
\* c.Compress(d, level) succeeds and c.Decompress of its result with
\* len(d) succeeds and returns d, whatever the native compressor did: also
\* when LZ4 / LZ4HC wrote 0 bytes and the adapter returned d verbatim.
AdapterRoundTrip ==
    /\ call.op = "Compress" => call.err = "nil"
    /\ call.op = "Decompress" => (call.err = "nil" /\ call.out = call.data)

====
